---------------------------- MODULE Spec2Model ----------------------------
(***************************************************************************)
(* Jira Automation Terraform provider: the REST client                     *)
(* (internal/client), the rule resource (internal/provider) and the        *)
(* component codec (internal/provider/component.go), as state machines.    *)
(*                                                                         *)
(* Representation.                                                         *)
(*   - A Go string is a sequence of tokens (<<"n1">>, <<"{{issue.",        *)
(*     "r","e","l">>): prefix tests and substring replacement work on      *)
(*     tokens.  The empty string is <<>>.                                   *)
(*   - A decoded JSON value (Go interface{}) is a tagged record:           *)
(*       [t |-> "null"], [t |-> "bool", v |-> b], [t |-> "num", v |-> n],  *)
(*       [t |-> "str", v |-> s], [t |-> "arr", v |-> <<...>>],             *)
(*       [t |-> "obj", v |-> f] with f a function from key names to JSON   *)
(*       values.  Numbers are small integers (exact in float64).           *)
(*   - A json.RawMessage is a JSON value, or Invalid for bytes that are    *)
(*     not JSON (the empty text included).                                 *)
(*   - A local variable of the Go code (d := f(x)) is a bound variable     *)
(*     over the singleton {f(x)}: CHOOSE out \in {e(d) : d \in {f(x)}}.     *)
(***************************************************************************)
EXTENDS Integers, Sequences, FiniteSets, TLC

VARIABLES
    remote,     \* the remote rule store: uuid -> rule object (a key -> JSON function)
    labelDefs,  \* the project's rule labels, label id = index (internal API)
    tfstate,    \* the resource's Terraform state: NoState or a ruleResourceModel
    reqs,       \* the HTTP requests the last operation sent, in order
    diag,       \* the last operation: its name, inputs and diagnostics
    codec       \* the component codec's input and outputs (SpecCodec)

vars == <<remote, labelDefs, tfstate, reqs, diag, codec>>

-----------------------------------------------------------------------------
(* JSON values *)

JNull == [t |-> "null"]
JBool(b) == [t |-> "bool", v |-> b]
JNum(n) == [t |-> "num", v |-> n]
JStr(s) == [t |-> "str", v |-> s]
JArr(a) == [t |-> "arr", v |-> a]
JObj(f) == [t |-> "obj", v |-> f]
Invalid == [t |-> "invalid"]
NoBody == [t |-> "none"]

\* a one-token string
S(x) == JStr(<<x>>)

IsObj(j) == j.t = "obj"
IsArr(j) == j.t = "arr"
Has(j, k) == IsObj(j) /\ k \in DOMAIN j.v

\* the elements of a JSON array; none for anything else (null included)
ElemsOf(j) == IF IsArr(j) THEN j.v ELSE <<>>

\* delete(m, k) and m[k] = v on a Go map
MapDelete(m, k) == [x \in (DOMAIN m) \ {k} |-> m[x]]
MapPut(m, k, val) == [x \in (DOMAIN m) \cup {k} |-> IF x = k THEN val ELSE m[x]]

RECURSIVE stripComponentIDs(_)

\* client.go stripComponentIDs, one of its two loops: the array under key k
\* with every element stripped
StripUnder(m, k) ==
    IF k \in DOMAIN m /\ IsArr(m[k])
    THEN MapPut(m, k, JArr([i \in 1..Len(m[k].v) |-> stripComponentIDs(m[k].v[i])]))
    ELSE m

\* stripComponentIDs without the descent into "conditions"
stripComponentIDsSkipsConditions(j) ==
    IF ~IsObj(j) THEN j
    ELSE JObj(StripUnder(
                MapPut(MapPut(MapDelete(j.v, "id"), "parentId", JNull), "conditionParentId", JNull),
                "children"))

\* client.go stripComponentIDs: the tree with "id" deleted and the two
\* parent links set to null in every object reached through the arrays
\* under "children" and "conditions" (the Go code edits the decoded tree in
\* place; the tree is freshly decoded, so nothing else aliases it).
stripComponentIDs(j) ==
    IF ~IsObj(j) THEN j
    ELSE JObj(StripUnder(StripUnder(
                MapPut(MapPut(MapDelete(j.v, "id"), "parentId", JNull), "conditionParentId", JNull),
                "children"), "conditions"))

-----------------------------------------------------------------------------
(* The remote REST API, as the client sees it *)

\* rule identifiers the server hands out, in order
UUIDs == <<<<"u1">>, <<"u2">>, <<"u3">>, <<"u4">>>>

\* the number of rules the server may hold
MaxRules == 1

ProjectID == <<"10001">>
CloudID == <<"cloud-123">>
AccountID == <<"acct-1">>
ManagedLabel == <<"managed-by:terraform">>

ProjectARI(cloud, project) == <<"ari:cloud:jira:">> \o cloud \o <<":project/">> \o project
SiteARI(cloud) == <<"ari:cloud:jira::site/">> \o cloud

\* a request: method, endpoint kind, the parameters in its path, body
Req(m, kind, path, body) == [m |-> m, kind |-> kind, path |-> path, body |-> body]

\* the ids the server assigns when it stores a trigger or component tree
RECURSIVE AssignIDs(_, _, _)
AssignUnder(m, k, link) ==
    IF k \in DOMAIN m /\ IsArr(m[k])
    THEN MapPut(m, k, JArr([i \in 1..Len(m[k].v) |-> AssignIDs(m[k].v[i], S("sid"), link)]))
    ELSE m
AssignIDs(j, parent, link) ==
    IF ~IsObj(j) THEN j
    ELSE JObj(AssignUnder(AssignUnder(
                IF link = "none" THEN MapPut(j.v, "id", S("sid"))
                ELSE MapPut(MapPut(j.v, "id", S("sid")), link, parent),
                "children", "parentId"), "conditions", "conditionParentId"))

\* the keys a rule write must carry (client.go CreateRule: "The API requires
\* several fields beyond name/trigger/components")
WriteKeys == {"name", "state", "notifyOnError", "canOtherRuleTrigger", "authorAccountId",
              "actor", "writeAccessType", "trigger", "components", "ruleScopeARIs"}
ReadOnlyKeys == {"uuid", "created", "updated"}

\* what the server stores for a written rule object
ServerStore(u, rule) ==
    JObj([k \in (DOMAIN rule.v) \cup {"uuid", "created", "updated", "labels"} |->
        CASE k = "uuid" -> JStr(u)
          [] k = "created" -> JNum(1)
          [] k = "updated" -> JNum(2)
          [] k = "trigger" -> AssignIDs(rule.v[k], JNull, "none")
          [] k = "components" ->
               JArr([i \in 1..Len(ElemsOf(rule.v[k])) |-> AssignIDs(ElemsOf(rule.v[k])[i], JNull, "none")])
          [] k = "labels" -> IF k \in DOMAIN rule.v THEN rule.v[k] ELSE JArr(<<>>)
          [] OTHER -> rule.v[k]])

\* a rule write is accepted when it is the {"rule": R} envelope, R carries the
\* mandatory keys, none of the read-only ones, and every key of the stored rule
IsEnvelope(body) == IsObj(body) /\ DOMAIN body.v = {"rule"} /\ IsObj(body.v["rule"])
WriteAccepted(body, prevKeys) ==
    /\ IsEnvelope(body)
    /\ WriteKeys \subseteq DOMAIN body.v["rule"].v
    /\ (prevKeys \ ReadOnlyKeys) \subseteq DOMAIN body.v["rule"].v
    /\ (DOMAIN body.v["rule"].v) \cap ReadOnlyKeys = {}

Reply(rem, labs, status, body) == [rem |-> rem, labs |-> labs, status |-> status, body |-> body]

SeqContains(s, x) == \E i \in 1..Len(s) : s[i] = x

\* the server's handling of one request
Server(rem, labs, r) ==
    CASE r.kind = "rule" /\ r.m = "GET" ->
           IF r.path[1] \in DOMAIN rem
           THEN Reply(rem, labs, 200, JObj([k \in {"rule"} |-> rem[r.path[1]]]))
           ELSE Reply(rem, labs, 404, NoBody)
      [] r.kind = "rule" /\ r.m = "PUT" ->
           IF r.path[1] \in DOMAIN rem /\ WriteAccepted(r.body, DOMAIN rem[r.path[1]].v)
           THEN Reply([rem EXCEPT ![r.path[1]] = ServerStore(r.path[1], r.body.v["rule"])],
                      labs, 200, NoBody)
           ELSE Reply(rem, labs, 400, NoBody)
      [] r.kind = "rules" /\ r.m = "POST" ->
           IF Cardinality(DOMAIN rem) < Len(UUIDs) /\ WriteAccepted(r.body, {})
           THEN Reply([x \in (DOMAIN rem) \cup {UUIDs[Cardinality(DOMAIN rem) + 1]} |->
                          IF x \in DOMAIN rem THEN rem[x]
                          ELSE ServerStore(x, r.body.v["rule"])],
                      labs, 201,
                      JObj([k \in {"uuid"} |-> JStr(UUIDs[Cardinality(DOMAIN rem) + 1])]))
           ELSE Reply(rem, labs, 400, NoBody)
      [] r.kind = "state" /\ r.m = "PUT" ->
           IF r.path[1] \notin DOMAIN rem THEN Reply(rem, labs, 404, NoBody)
           ELSE IF Has(r.body, "value") /\ r.body.v["value"] \in {S("ENABLED"), S("DISABLED")}
           THEN Reply([rem EXCEPT ![r.path[1]] =
                          JObj(MapPut(rem[r.path[1]].v, "state", r.body.v["value"]))],
                      labs, 204, NoBody)
           ELSE Reply(rem, labs, 400, NoBody)
      [] r.kind = "labels" /\ r.m = "GET" ->
           IF r.path[1] # ProjectID THEN Reply(rem, labs, 404, NoBody)
           ELSE Reply(rem, labs, 200,
                      JArr([i \in 1..Len(labs) |-> JObj([k \in {"id", "name"} |->
                               IF k = "id" THEN JNum(i) ELSE JStr(labs[i])])]))
      [] r.kind = "labels" /\ r.m = "POST" ->
           IF r.path[1] = ProjectID /\ Has(r.body, "name") /\ r.body.v["name"].t = "str"
           THEN Reply(rem, Append(labs, r.body.v["name"].v), 201,
                      JObj([k \in {"id", "name"} |->
                          IF k = "id" THEN JNum(Len(labs) + 1) ELSE r.body.v["name"]]))
           ELSE Reply(rem, labs, 400, NoBody)
      [] r.kind = "ruleLabel" /\ r.m = "PUT" ->
           IF r.path[1] = ProjectID /\ r.path[2] \in DOMAIN rem /\ r.path[3] \in 1..Len(labs)
           THEN Reply([rem EXCEPT ![r.path[2]] = JObj(MapPut(rem[r.path[2]].v, "labels",
                          IF SeqContains(rem[r.path[2]].v["labels"].v, JStr(labs[r.path[3]]))
                          THEN rem[r.path[2]].v["labels"]
                          ELSE JArr(Append(rem[r.path[2]].v["labels"].v, JStr(labs[r.path[3]])))))],
                      labs, 204, NoBody)
           ELSE Reply(rem, labs, 404, NoBody)
      [] OTHER -> Reply(rem, labs, 405, NoBody)

\* How a request may fail on the way: "status" is a non-2xx answer and
\* "transport" an error from the HTTP client, both without effect on the
\* server; "lost" is a transport error after the server has applied the
\* request; "badbody" is the server's answer with a body that is not JSON.
FailKinds == {"status", "transport", "lost", "badbody"}
NoFail == [at |-> 0, kind |-> "status"]

\* The call context threaded through one operation: the server's state, the
\* requests sent so far with the status of each answer (0 for a transport
\* error), and the request (by position) that fails.
Ctx(rem, labs, fail) ==
    [rem |-> rem, labs |-> labs, reqs |-> <<>>, resps |-> <<>>, fail |-> fail,
     step |-> FALSE, replay |-> <<>>, live |-> <<>>, blocked |-> FALSE]

\* The context of an operation that is taken one request at a time: replay
\* holds the answers the operation has received so far.  The operation runs
\* again from its start on those answers, sends one more request to the
\* server as it is now (live) and is blocked at the request after that.
CtxStep(rem, labs, fail, replay) ==
    [rem |-> rem, labs |-> labs, reqs |-> <<>>, resps |-> <<>>, fail |-> fail,
     step |-> TRUE, replay |-> replay, live |-> <<>>, blocked |-> FALSE]

\* answers of the server that decode as JSON and differ from the usual body:
\* "noid" is the empty object, "nullbody" is null, "emptyid" carries an empty
\* "uuid", "ruleUuid" carries the identifier under the key "ruleUuid"
AnswerKinds == {"noid", "nullbody", "emptyid", "ruleUuid"}
AnswerBody(kind, body) ==
    CASE kind = "noid" -> JObj(<<>>)
      [] kind = "nullbody" -> JNull
      [] kind = "emptyid" -> JObj([k \in {"uuid"} |-> JStr(<<>>)])
      [] OTHER -> IF Has(body, "uuid") THEN JObj([k \in {"ruleUuid"} |-> body.v["uuid"]]) ELSE body

\* one request on the wire: the answer is a transport error or a status with
\* a body
DoRequest(c, r) ==
    CHOOSE out \in {
       IF c.fail.at # Len(c.reqs) + 1
       THEN [c |-> [c EXCEPT !.reqs = Append(c.reqs, r), !.resps = Append(c.resps, sv.status),
                          !.rem = sv.rem, !.labs = sv.labs],
             neterr |-> FALSE, status |-> sv.status, body |-> sv.body]
       ELSE CASE c.fail.kind = "transport" ->
                   [c |-> [c EXCEPT !.reqs = Append(c.reqs, r), !.resps = Append(c.resps, 0)],
                    neterr |-> TRUE, status |-> 0, body |-> NoBody]
              [] c.fail.kind = "lost" ->
                   [c |-> [c EXCEPT !.reqs = Append(c.reqs, r), !.resps = Append(c.resps, 0),
                                 !.rem = sv.rem, !.labs = sv.labs],
                    neterr |-> TRUE, status |-> 0, body |-> NoBody]
              [] c.fail.kind = "badbody" ->
                   [c |-> [c EXCEPT !.reqs = Append(c.reqs, r), !.resps = Append(c.resps, sv.status),
                                 !.rem = sv.rem, !.labs = sv.labs],
                    neterr |-> FALSE, status |-> sv.status, body |-> Invalid]
              [] c.fail.kind \in AnswerKinds ->
                   [c |-> [c EXCEPT !.reqs = Append(c.reqs, r), !.resps = Append(c.resps, sv.status),
                                 !.rem = sv.rem, !.labs = sv.labs],
                    neterr |-> FALSE, status |-> sv.status, body |-> AnswerBody(c.fail.kind, sv.body)]
              [] OTHER ->
                   [c |-> [c EXCEPT !.reqs = Append(c.reqs, r), !.resps = Append(c.resps, 500)],
                    neterr |-> FALSE, status |-> 500, body |-> NoBody] :
                      sv \in {Server(c.rem, c.labs, r)}} : TRUE

\* client.go Client.do: send one request and wait for its answer.  An
\* operation taken one request at a time has the answers of its earlier
\* requests already, sends the next one now, and waits at the one after it.
Do(c, r) ==
    IF c.step /\ Len(c.reqs) < Len(c.replay)
    THEN CHOOSE out \in {
           [c |-> [c EXCEPT !.reqs = Append(c.reqs, r), !.resps = Append(c.resps, a.status)],
            neterr |-> a.neterr, status |-> a.status, body |-> a.body] :
              a \in {c.replay[Len(c.reqs) + 1]}} : TRUE
    ELSE IF c.step /\ c.live # <<>>
    THEN [c |-> [c EXCEPT !.blocked = TRUE], neterr |-> TRUE, status |-> 0, body |-> NoBody]
    ELSE CHOOSE out \in {
           [d EXCEPT !.c.live = <<[neterr |-> d.neterr, status |-> d.status, body |-> d.body]>>] :
              d \in {DoRequest(c, r)}} : TRUE

-----------------------------------------------------------------------------
(* internal/client: the REST client *)

NoErr == ""

\* a body the JSON decoder accepts
Decodes(body) == body.t \notin {"invalid", "none"}

\* client.go GetRuleRaw: GET /rule/{uuid}; the rule without its envelope.
\* A decoded envelope without a "rule" key leaves the raw message empty.
GetRuleRaw(c, uuid) ==
    CHOOSE out \in {
       IF d.neterr THEN [c |-> d.c, err |-> "getting rule", raw |-> Invalid]
       ELSE IF d.status # 200 THEN [c |-> d.c, err |-> "get rule returned", raw |-> Invalid]
       ELSE IF ~Decodes(d.body) \/ d.body.t \notin {"obj", "null"}
       THEN [c |-> d.c, err |-> "decoding rule", raw |-> Invalid]
       ELSE [c |-> d.c, err |-> NoErr,
             raw |-> IF Has(d.body, "rule") THEN d.body.v["rule"] ELSE Invalid] :
                      d \in {Do(c, Req("GET", "rule", <<uuid>>, NoBody))}} : TRUE

\* a []string field of a decoded struct: the strings of the array, nil when absent
StringsOf(m, k) ==
    IF k \in DOMAIN m /\ IsArr(m[k]) THEN [i \in 1..Len(m[k].v) |-> m[k].v[i].v] ELSE <<>>
StringOf(m, k) == IF k \in DOMAIN m /\ m[k].t = "str" THEN m[k].v ELSE <<>>

\* the Rule struct decoded from a JSON object (the zero Rule from null)
DecodeRule(raw) ==
    CHOOSE out \in {
        [UUID |-> StringOf(m, "uuid"),
         Name |-> StringOf(m, "name"),
         State |-> StringOf(m, "state"),
         RuleScopeARIs |-> StringsOf(m, "ruleScopeARIs"),
         Labels |-> StringsOf(m, "labels"),
         Trigger |-> IF "trigger" \in DOMAIN m THEN m["trigger"] ELSE Invalid,
         Components |-> IF "components" \in DOMAIN m THEN ElemsOf(m["components"]) ELSE <<>>] :
                      m \in {IF IsObj(raw) THEN raw.v ELSE <<>>}} : TRUE

\* client.go GetRule: the raw rule decoded into the Rule struct
GetRule(c, uuid) ==
    CHOOSE out \in {
       IF g.err # NoErr THEN [c |-> g.c, err |-> g.err, rule |-> DecodeRule(JNull)]
       ELSE IF g.raw.t \notin {"obj", "null"}
       THEN [c |-> g.c, err |-> "decoding rule", rule |-> DecodeRule(JNull)]
       ELSE [c |-> g.c, err |-> NoErr, rule |-> DecodeRule(g.raw)] :
                      g \in {GetRuleRaw(c, uuid)}} : TRUE

\* a []interface{} as json.Marshal writes it: null for the nil slice
JSlice(s) == IF s = <<>> THEN JNull ELSE JArr(s)

\* client.go CreateRule, the payload of POST /rule
CreateRulePayload(rule) ==
    JObj([k \in WriteKeys |->
        CASE k = "name" -> JStr(rule.Name)
          [] k = "state" -> S("DISABLED")
          [] k = "notifyOnError" -> S("FIRSTERROR")
          [] k = "canOtherRuleTrigger" -> JBool(FALSE)
          [] k = "authorAccountId" -> JStr(AccountID)
          [] k = "actor" -> JObj([a \in {"type", "actor"} |->
                                  IF a = "type" THEN S("ACCOUNT_ID") ELSE JStr(AccountID)])
          [] k = "writeAccessType" -> S("OWNER_ONLY")
          [] k = "trigger" -> rule.Trigger
          [] k = "components" -> JSlice(rule.Components)
          [] k = "ruleScopeARIs" ->
               JArr(<<JStr(IF rule.ProjectID # <<>> THEN ProjectARI(CloudID, rule.ProjectID)
                           ELSE SiteARI(CloudID))>>)])

Envelope(rule) == JObj([k \in {"rule"} |-> rule])

AnyInvalid(raws) == \E i \in 1..Len(raws) : raws[i] = Invalid

\* client.go CreateRule: POST /rule; the identifier the answer carries
CreateRule(c, rule) ==
    IF rule.Trigger = Invalid THEN [c |-> c, err |-> "parsing trigger", uuid |-> <<>>]
    ELSE IF AnyInvalid(rule.Components) THEN [c |-> c, err |-> "parsing component", uuid |-> <<>>]
    ELSE
      CHOOSE out \in {
         IF d.neterr THEN [c |-> d.c, err |-> "creating rule", uuid |-> <<>>]
         ELSE IF d.status \notin {200, 201} THEN [c |-> d.c, err |-> "create rule returned", uuid |-> <<>>]
         ELSE IF ~Decodes(d.body) \/ d.body.t \notin {"obj", "null"}
         THEN [c |-> d.c, err |-> "decoding create rule response", uuid |-> <<>>]
         ELSE [c |-> d.c, err |-> NoErr,
               uuid |-> IF Has(d.body, "uuid") /\ StringOf(d.body.v, "uuid") # <<>>
                        THEN StringOf(d.body.v, "uuid")
                        ELSE IF Has(d.body, "ruleUuid") THEN StringOf(d.body.v, "ruleUuid")
                        ELSE <<>>] :
                      d \in {Do(c, Req("POST", "rules", <<>>, Envelope(CreateRulePayload(rule))))}} : TRUE

\* client.go UpdateRule steps 2-5: the PUT body from the fetched rule and
\* the desired name, trigger and components
UpdateRulePayloadOnlyManaged(raw, update) ==
    Envelope(JObj([k \in {"name", "trigger", "components"} |->
        CASE k = "name" -> JStr(update.Name)
          [] k = "trigger" -> stripComponentIDs(update.Trigger)
          [] k = "components" ->
               JSlice([i \in 1..Len(update.Components) |-> stripComponentIDs(update.Components[i])])]))

\* UpdateRule's PUT body with the labels emptied instead of kept
UpdateRulePayloadResetsLabels(raw, update) ==
    Envelope(JObj(
        MapPut(MapPut(MapPut(MapPut(
            MapDelete(MapDelete(MapDelete(raw.v, "uuid"), "created"), "updated"),
            "name", JStr(update.Name)),
            "trigger", stripComponentIDs(update.Trigger)),
            "components",
            JSlice([i \in 1..Len(update.Components) |-> stripComponentIDs(update.Components[i])])),
            "labels", JArr(<<>>))))

UpdateRulePayload(raw, update) ==
    Envelope(JObj(
        MapPut(MapPut(MapPut(
            MapDelete(MapDelete(MapDelete(raw.v, "uuid"), "created"), "updated"),
            "name", JStr(update.Name)),
            "trigger", stripComponentIDs(update.Trigger)),
            "components",
            JSlice([i \in 1..Len(update.Components) |-> stripComponentIDs(update.Components[i])]))))

\* an UpdateRule that sends its PUT without looking at the desired JSON
UpdateRuleSkipsValidation(c, uuid, update) ==
    CHOOSE out \in {
       IF g.err # NoErr THEN [c |-> g.c, err |-> "reading current rule for update", panic |-> FALSE]
       ELSE IF g.raw.t # "obj" THEN [c |-> g.c, err |-> "parsing current rule", panic |-> FALSE]
       ELSE
         CHOOSE out2 \in {
            IF d.neterr THEN [c |-> d.c, err |-> "updating rule", panic |-> FALSE]
            ELSE IF d.status \notin {200, 204} THEN [c |-> d.c, err |-> "update rule returned", panic |-> FALSE]
            ELSE [c |-> d.c, err |-> NoErr, panic |-> FALSE] :
                      d \in {Do(g.c, Req("PUT", "rule", <<uuid>>, JObj([k \in {"rule"} |-> g.raw])))}} : TRUE :
                      g \in {GetRuleRaw(c, uuid)}} : TRUE

\* client.go UpdateRule: GET the rule, merge, PUT.  A fetched rule that is
\* JSON null decodes to a nil map, and the assignment of "name" into it panics.
UpdateRule(c, uuid, update) ==
    CHOOSE out \in {
       IF g.err # NoErr THEN [c |-> g.c, err |-> "reading current rule for update", panic |-> FALSE]
       ELSE IF g.raw.t \notin {"obj", "null"} THEN [c |-> g.c, err |-> "parsing current rule", panic |-> FALSE]
       ELSE IF g.raw.t = "null" THEN [c |-> g.c, err |-> NoErr, panic |-> TRUE]
       ELSE IF update.Trigger = Invalid THEN [c |-> g.c, err |-> "parsing trigger", panic |-> FALSE]
       ELSE IF AnyInvalid(update.Components) THEN [c |-> g.c, err |-> "parsing component", panic |-> FALSE]
       ELSE
         CHOOSE out \in {
            IF d.neterr THEN [c |-> d.c, err |-> "updating rule", panic |-> FALSE]
            ELSE IF d.status \notin {200, 204} THEN [c |-> d.c, err |-> "update rule returned", panic |-> FALSE]
            ELSE [c |-> d.c, err |-> NoErr, panic |-> FALSE] :
                      d \in {Do(g.c, Req("PUT", "rule", <<uuid>>, UpdateRulePayload(g.raw, update)))}} : TRUE :
                      g \in {GetRuleRaw(c, uuid)}} : TRUE

\* SetRuleStateBody that ignores the flag, either way
SetRuleStateBodyAlwaysEnabled(enabled) == JObj([k \in {"value"} |-> S("ENABLED")])
SetRuleStateBodyAlwaysDisabled(enabled) == JObj([k \in {"value"} |-> S("DISABLED")])

\* client.go SetRuleState, the body of PUT /rule/{uuid}/state
SetRuleStateBody(enabled) ==
    JObj([k \in {"value"} |-> IF enabled THEN S("ENABLED") ELSE S("DISABLED")])

\* a SetRuleState that sends the toggle a second time when the first fails
SetRuleStateRetries(c, uuid, enabled) ==
    CHOOSE out \in {
       IF ~d.neterr /\ d.status \in {200, 204} THEN [c |-> d.c, err |-> NoErr]
       ELSE CHOOSE out2 \in {
              IF d2.neterr THEN [c |-> d2.c, err |-> "setting rule state"]
              ELSE IF d2.status \notin {200, 204} THEN [c |-> d2.c, err |-> "set rule state returned"]
              ELSE [c |-> d2.c, err |-> NoErr] :
                      d2 \in {Do(d.c, Req("PUT", "state", <<uuid>>, SetRuleStateBody(enabled)))}} : TRUE :
                      d \in {Do(c, Req("PUT", "state", <<uuid>>, SetRuleStateBody(enabled)))}} : TRUE

\* client.go SetRuleState
SetRuleState(c, uuid, enabled) ==
    CHOOSE out \in {
       IF d.neterr THEN [c |-> d.c, err |-> "setting rule state"]
       ELSE IF d.status \notin {200, 204} THEN [c |-> d.c, err |-> "set rule state returned"]
       ELSE [c |-> d.c, err |-> NoErr] :
                      d \in {Do(c, Req("PUT", "state", <<uuid>>, SetRuleStateBody(enabled)))}} : TRUE

-----------------------------------------------------------------------------
(* internal/provider/component.go: the component codec *)

\* strings.HasPrefix, strings.HasSuffix, strings.ReplaceAll (old is never empty)
HasPrefix(s, p) == Len(s) >= Len(p) /\ SubSeq(s, 1, Len(p)) = p
HasSuffix(s, p) == Len(s) >= Len(p) /\ SubSeq(s, Len(s) - Len(p) + 1, Len(s)) = p
RECURSIVE ReplaceAll(_, _, _)
ReplaceAll(s, old, new) ==
    IF s = <<>> THEN <<>>
    ELSE IF HasPrefix(s, old) THEN new \o ReplaceAll(SubSeq(s, Len(old) + 1, Len(s)), old, new)
    ELSE <<Head(s)>> \o ReplaceAll(Tail(s), old, new)

\* m[k] on a map[string]string: the zero string for a missing key
ArgOf(args, k) == IF k \in DOMAIN args THEN args[k] ELSE <<>>

debugLogPrefix == <<"[DEBUG add_release_related_work] ">>

\* componentRegistry: the API type of a user-facing type, <<>> when unknown
RegistryApiType(userType) ==
    CASE userType = <<"log">> -> <<"codebarrel.action.log">>
      [] userType = <<"comment">> -> <<"jira.issue.comment">>
      [] userType = <<"add_release_related_work">> -> <<"jira.issue.outgoing.webhook">>
      [] OTHER -> <<>>

\* apiTypeToComponentUserType taking every type it does not know for a log
apiTypeToComponentUserTypeDefaultsToLog(apiType) ==
    CASE apiType = <<"jira.issue.comment">> -> <<"comment">>
      [] apiType = <<"jira.issue.outgoing.webhook">> -> <<"add_release_related_work">>
      [] OTHER -> <<"log">>

\* apiTypeToComponentUserType
apiTypeToComponentUserType(apiType) ==
    CASE apiType = <<"codebarrel.action.log">> -> <<"log">>
      [] apiType = <<"jira.issue.comment">> -> <<"comment">>
      [] apiType = <<"jira.issue.outgoing.webhook">> -> <<"add_release_related_work">>
      [] OTHER -> <<>>

\* len(s) of a key: the bytes of its tokens
TokenLen(tok) ==
    CASE tok \in {"rel", "env", "fix"} -> 3
      [] tok = "ease" -> 4
      [] tok = "ed" -> 2
      [] tok \in {"sprint", "status"} -> 6
      [] tok = "Versions" -> 8
      [] tok \in {"customfield_10020", "customfield_10021", "customfield_10022"} -> 17
      [] OTHER -> 1
RECURSIVE StrLen(_)
StrLen(s) == IF s = <<>> THEN 0 ELSE TokenLen(Head(s)) + StrLen(Tail(s))

\* sortedKeys: the orders sort.Slice may leave the keys in, longest first;
\* keys of equal length come in any order (map iteration, unstable sort)
sortedKeys(m) ==
    {o \in [1..Cardinality(DOMAIN m) -> DOMAIN m] :
        /\ \A i, j \in DOMAIN o : i # j => o[i] # o[j]
        /\ \A i, j \in DOMAIN o : i < j => StrLen(o[i]) >= StrLen(o[j])}

replaceSmartValueField(s, oldField, newField) ==
    ReplaceAll(ReplaceAll(s, <<"{{issue.">> \o oldField, <<"{{issue.">> \o newField),
               <<"{{triggerIssue.">> \o oldField, <<"{{triggerIssue.">> \o newField)

\* the inner loop of resolveAliases over the sorted keys, from position i
RECURSIVE ReplaceEach(_, _, _, _)
ReplaceEach(v, table, sorted, i) ==
    IF i > Len(sorted) THEN v
    ELSE ReplaceEach(replaceSmartValueField(v, sorted[i], table[sorted[i]]), table, sorted, i + 1)

\* resolveAliases; sorted is the result of its call of sortedKeys(aliases).
\* With an empty table the argument map itself is returned.
resolveAliases(args, aliases, sorted) ==
    IF DOMAIN aliases = {} THEN args
    ELSE [k \in DOMAIN args |->
            CHOOSE out \in {IF r \in DOMAIN aliases THEN aliases[r] ELSE r :
                               r \in {ReplaceEach(args[k], aliases, sorted, 1)}} : TRUE]

\* unresolveAliases: the same walk over the reverse table
unresolveAliases(args, reverse, sorted) == resolveAliases(args, reverse, sorted)

\* Go maps are references: the heap holds the maps, a map value is its
\* position. resolveAliases returns its argument when the table is empty and
\* a map it made otherwise.
resolveAliasesRef(heap, args, aliases, sorted) ==
    IF DOMAIN aliases = {} THEN [heap |-> heap, ref |-> args]
    ELSE [heap |-> Append(heap, resolveAliases(heap[args], aliases, sorted)), ref |-> Len(heap) + 1]

unresolveAliasesRef(heap, args, reverse, sorted) == resolveAliasesRef(heap, args, reverse, sorted)

\* the action object every builder marshals
ActionJSON(schemaVersion, apiType, value) ==
    JObj([children |-> JArr(<<>>), component |-> S("ACTION"), conditions |-> JArr(<<>>),
          connectionId |-> JNull, schemaVersion |-> JNum(schemaVersion),
          type |-> JStr(apiType), value |-> value])

buildLog(args) ==
    IF ArgOf(args, "message") = <<>>
    THEN [err |-> "log requires a 'message' arg", raw |-> Invalid]
    ELSE [err |-> NoErr,
          raw |-> ActionJSON(1, <<"codebarrel.action.log">>, JStr(ArgOf(args, "message")))]

buildComment(args) ==
    IF ArgOf(args, "message") = <<>>
    THEN [err |-> "comment requires a 'message' arg", raw |-> Invalid]
    ELSE [err |-> NoErr,
          raw |-> ActionJSON(2, <<"jira.issue.comment">>,
                    JObj([comment |-> JStr(ArgOf(args, "message")), publicComment |-> JBool(FALSE),
                          commentVisibility |-> JNull, sendNotifications |-> JBool(TRUE),
                          addCommentOnce |-> JBool(FALSE)]))]

\* the URL both buildAddReleaseRelatedWork and buildDebugLogs format
webhookURL(cloudID, versionField) ==
    <<"https://api.atlassian.com/ex/jira/">> \o cloudID \o <<"/rest/api/3/version/", "{{issue.">>
        \o versionField \o <<".format(\"###\")}}", "/relatedwork">>

\* json.Marshal's escaping of a string: the quote token becomes \" (other
\* tokens of the model need no escape); and the decoder's inverse
EscapeJSON(s) == [i \in 1..Len(s) |-> IF s[i] = "\"" THEN "\\\"" ELSE s[i]]
UnescapeJSON(s) == [i \in 1..Len(s) |-> IF s[i] = "\\\"" THEN "\"" ELSE s[i]]

\* json.Marshal of the map {category, title, url}: keys sorted, as text
customBodyJSON(args) ==
    <<"{\"category\":\"">> \o EscapeJSON(ArgOf(args, "category"))
        \o <<"\",\"title\":\"">> \o EscapeJSON(ArgOf(args, "title"))
        \o <<"\",\"url\":\"">> \o EscapeJSON(ArgOf(args, "url")) \o <<"\"}">>

\* base64.StdEncoding.EncodeToString, kept symbolic
Base64(s) == <<"base64(">> \o s \o <<")">>

buildAddReleaseRelatedWork(args, cloudID, webhookUser, webhookToken) ==
    IF \E k \in {"version_field", "category", "title", "url"} : ArgOf(args, k) = <<>>
    THEN [err |-> "add_release_related_work requires version_field, category, title, and url args",
          raw |-> Invalid]
    ELSE IF webhookUser = <<>> \/ webhookToken = <<>>
    THEN [err |-> "add_release_related_work requires webhook_user and webhook_token", raw |-> Invalid]
    ELSE [err |-> NoErr,
          raw |-> ActionJSON(1, <<"jira.issue.outgoing.webhook">>,
                    JObj([contentType |-> S("custom"), continueOnErrorEnabled |-> JBool(FALSE),
                          customBody |-> JStr(customBodyJSON(args)),
                          headers |-> JArr(<<JObj([headerSecure |-> JBool(TRUE), id |-> JNull,
                                                   name |-> S("Authorization"),
                                                   value |-> JStr(<<"Basic ">> \o
                                                       Base64(webhookUser \o <<":">> \o webhookToken))])>>),
                          method |-> S("POST"), responseEnabled |-> JBool(FALSE),
                          sendIssue |-> JBool(FALSE),
                          url |-> JStr(webhookURL(cloudID, ArgOf(args, "version_field")))]))]

\* the four messages of buildDebugLogs
debugMessages(args, cloudID) ==
    << debugLogPrefix \o <<"webhook_url = ">> \o webhookURL(cloudID, ArgOf(args, "version_field")),
       debugLogPrefix \o <<"request_body = ">> \o customBodyJSON(args),
       debugLogPrefix \o <<"version_field_value = ", "{{issue.">> \o ArgOf(args, "version_field") \o <<"}}">>,
       debugLogPrefix \o <<"version_id = ", "{{issue.">> \o ArgOf(args, "version_field")
           \o <<".format(\"###\")}}">> >>

buildDebugLogs(args, cloudID) ==
    [err |-> NoErr,
     raws |-> [i \in 1..4 |-> buildLog([k \in {"message"} |-> debugMessages(args, cloudID)[i]]).raw]]

\* the registry's builder for a known type
RegistryBuild(actionType, args, cloudID, webhookUser, webhookToken) ==
    CASE actionType = <<"log">> -> buildLog(args)
      [] actionType = <<"comment">> -> buildComment(args)
      [] OTHER -> buildAddReleaseRelatedWork(args, cloudID, webhookUser, webhookToken)

\* buildActionWithDebug with the debug expansion offered to every action type
buildActionWithDebugForAnyType(actionType, args, cloudID, webhookUser, webhookToken) ==
    IF RegistryApiType(actionType) = <<>> THEN [err |-> "unknown action type", raws |-> <<>>]
    ELSE CHOOSE out \in {
           IF b.err # NoErr THEN [err |-> b.err, raws |-> <<>>]
           ELSE IF ArgOf(args, "debug") = <<"true">>
           THEN [err |-> NoErr, raws |-> Append(buildDebugLogs(args, cloudID).raws, b.raw)]
           ELSE [err |-> NoErr, raws |-> <<b.raw>>] :
             b \in {RegistryBuild(actionType, MapDelete(args, "debug"), cloudID, webhookUser, webhookToken)}} : TRUE

\* buildActionWithDebug without the debug expansion
buildActionWithDebugNeverExpands(actionType, args, cloudID, webhookUser, webhookToken) ==
    IF RegistryApiType(actionType) = <<>> THEN [err |-> "unknown action type", raws |-> <<>>]
    ELSE CHOOSE out \in {
           IF b.err # NoErr THEN [err |-> b.err, raws |-> <<>>]
           ELSE [err |-> NoErr, raws |-> <<b.raw>>] :
             b \in {RegistryBuild(actionType, args, cloudID, webhookUser, webhookToken)}} : TRUE

buildActionWithDebug(actionType, args, cloudID, webhookUser, webhookToken) ==
    IF actionType = <<"add_release_related_work">> /\ ArgOf(args, "debug") = <<"true">>
    THEN CHOOSE out \in {
           IF w.err # NoErr THEN [err |-> w.err, raws |-> <<>>]
           ELSE [err |-> NoErr,
                 raws |-> Append(buildDebugLogs(MapDelete(args, "debug"), cloudID).raws, w.raw)] :
             w \in {buildAddReleaseRelatedWork(MapDelete(args, "debug"), cloudID,
                                               webhookUser, webhookToken)}} : TRUE
    ELSE IF RegistryApiType(actionType) = <<>> THEN [err |-> "unknown action type", raws |-> <<>>]
    ELSE CHOOSE out \in {
           IF b.err # NoErr THEN [err |-> b.err, raws |-> <<>>]
           ELSE [err |-> NoErr, raws |-> <<b.raw>>] :
             b \in {RegistryBuild(actionType, args, cloudID, webhookUser, webhookToken)}} : TRUE

\* json.Unmarshal of a raw message into a struct: it takes an object or null
DecodesToStruct(raw) == raw.t \in {"obj", "null"}
\* a string field of such a struct: it takes a string or null, or is absent
StringFieldOK(j, k) == DecodesToStruct(j) /\ (Has(j, k) => j.v[k].t \in {"str", "null"})
StringField(j, k) == IF Has(j, k) /\ j.v[k].t = "str" THEN j.v[k].v ELSE <<>>
\* a nested struct field, null when absent
StructField(j, k) == IF Has(j, k) THEN j.v[k] ELSE JNull
\* a []json.RawMessage field: it takes an array or null, or is absent
RawsFieldOK(j, k) == DecodesToStruct(j) /\ (Has(j, k) => j.v[k].t \in {"arr", "null"})
RawsField(j, k) == IF Has(j, k) THEN ElemsOf(j.v[k]) ELSE <<>>

parseLog(raw) ==
    IF ~StringFieldOK(raw, "value") THEN [err |-> "parsing log action", args |-> <<>>]
    ELSE [err |-> NoErr, args |-> [k \in {"message"} |-> StringField(raw, "value")]]

parseComment(raw) ==
    IF ~DecodesToStruct(raw) \/ ~StringFieldOK(StructField(raw, "value"), "comment")
    THEN [err |-> "parsing comment action", args |-> <<>>]
    ELSE [err |-> NoErr,
          args |-> [k \in {"message"} |-> StringField(StructField(raw, "value"), "comment")]]

\* the tokens of the model that hold a slash, and those that hold a dot
SlashTokens == {"https://api.atlassian.com/ex/jira/", "/rest/api/3/version/", "/relatedwork",
                "https://example.com", "/"}
DotTokens == {"https://api.atlassian.com/ex/jira/", "{{issue.", "{{triggerIssue.",
              ".format(\"###\")}}", "https://example.com", "."}

\* relatedworkURLPattern: the position of the version token when the URL
\* matches, 0 when it does not; the submatch runs from there to Len - 2
relatedworkURLMatch(url) ==
    IF \E p \in 3..(Len(url) - 4) :
          /\ url[1] = "https://api.atlassian.com/ex/jira/"
          /\ \A i \in 2..(p - 1) : url[i] \notin SlashTokens
          /\ url[p] = "/rest/api/3/version/" /\ url[p + 1] = "{{issue."
          /\ \A i \in (p + 2)..(Len(url) - 2) : url[i] \notin DotTokens
          /\ url[Len(url) - 1] = ".format(\"###\")}}" /\ url[Len(url)] = "/relatedwork"
    THEN 2 + CHOOSE p \in 3..(Len(url) - 4) :
                url[p] = "/rest/api/3/version/" /\ \A i \in 2..(p - 1) : url[i] \notin SlashTokens
    ELSE 0

\* the first position of a token in a text, 0 when absent
IndexOfToken(s, tok) ==
    IF \E i \in 1..Len(s) : s[i] = tok
    THEN CHOOSE i \in 1..Len(s) : s[i] = tok /\ \A j \in 1..(i - 1) : s[j] # tok
    ELSE 0

\* json.Unmarshal of the custom body text into a map[string]string, for the
\* texts json.Marshal writes for such a map, "{}" and texts that are not JSON
customBodyIsJSON(text) ==
    \/ text = <<"{}">>
    \/ /\ Len(text) >= 4 /\ text[1] = "{\"category\":\"" /\ text[Len(text)] = "\"}"
       /\ IndexOfToken(text, "\",\"title\":\"") > 1
       /\ IndexOfToken(text, "\",\"url\":\"") > IndexOfToken(text, "\",\"title\":\"")
       /\ \A i \in 1..Len(text) : text[i] # "\""
customBodyField(text, k) ==
    IF text = <<"{}">> THEN <<>>
    ELSE UnescapeJSON(
           CASE k = "category" -> SubSeq(text, 2, IndexOfToken(text, "\",\"title\":\"") - 1)
             [] k = "title" -> SubSeq(text, IndexOfToken(text, "\",\"title\":\"") + 1,
                                      IndexOfToken(text, "\",\"url\":\"") - 1)
             [] OTHER -> SubSeq(text, IndexOfToken(text, "\",\"url\":\"") + 1, Len(text) - 1))

parseAddReleaseRelatedWork(raw) ==
    IF \/ ~DecodesToStruct(raw)
       \/ ~StringFieldOK(StructField(raw, "value"), "url")
       \/ ~StringFieldOK(StructField(raw, "value"), "customBody")
    THEN [err |-> "parsing webhook action", args |-> <<>>]
    ELSE CHOOSE out \in {
           IF relatedworkURLMatch(val.url) = 0
           THEN [err |-> "webhook URL does not match relatedwork pattern", args |-> <<>>]
           ELSE IF ~customBodyIsJSON(val.body)
           THEN [err |-> "parsing webhook custom body", args |-> <<>>]
           ELSE [err |-> NoErr,
                 args |-> [k \in {"version_field", "category", "title", "url"} |->
                             IF k = "version_field"
                             THEN SubSeq(val.url, relatedworkURLMatch(val.url), Len(val.url) - 2)
                             ELSE customBodyField(val.body, k)]] :
             val \in {[url |-> StringField(StructField(raw, "value"), "url"),
                       body |-> StringField(StructField(raw, "value"), "customBody")]}} : TRUE

\* the registry's parser for a known type
RegistryParse(userType, raw) ==
    CASE userType = <<"log">> -> parseLog(raw)
      [] userType = <<"comment">> -> parseComment(raw)
      [] OTHER -> parseAddReleaseRelatedWork(raw)

\* one CONDITION_BLOCK of BuildConditionJSON
ConditionBlockJSON(conditions, children) ==
    JObj([children |-> JArr(children), component |-> S("CONDITION_BLOCK"),
          conditions |-> JArr(conditions), connectionId |-> JNull, schemaVersion |-> JNum(1),
          type |-> S("jira.condition.if.block"),
          value |-> JObj([conditionMatchType |-> S("ALL")])])

\* BuildConditionJSON leaving the ELSE block out when there is no else action
BuildConditionJSONOmitsEmptyElse(condArgs, thenActions, elseActions) ==
    IF ArgOf(condArgs, "first") = <<>> \/ ArgOf(condArgs, "operator") = <<>>
    THEN [err |-> "condition requires 'first' and 'operator' args", raw |-> Invalid]
    ELSE IF AnyInvalid(thenActions) THEN [err |-> "parsing then action", raw |-> Invalid]
    ELSE IF AnyInvalid(elseActions) THEN [err |-> "parsing else action", raw |-> Invalid]
    ELSE [err |-> NoErr,
          raw |-> JObj([
             children |-> JArr(
                <<ConditionBlockJSON(
                   <<JObj([children |-> JArr(<<>>), component |-> S("CONDITION"),
                           conditions |-> JArr(<<>>), connectionId |-> JNull,
                           schemaVersion |-> JNum(1), type |-> S("jira.comparator.condition"),
                           value |-> JObj([first |-> JStr(ArgOf(condArgs, "first")),
                                           operator |-> JStr(ArgOf(condArgs, "operator")),
                                           second |-> JStr(ArgOf(condArgs, "second"))])])>>,
                   thenActions)>>
                \o (IF elseActions = <<>> THEN <<>> ELSE <<ConditionBlockJSON(<<>>, elseActions)>>)),
             component |-> S("CONDITION"), conditions |-> JArr(<<>>), connectionId |-> JNull,
             schemaVersion |-> JNum(1), type |-> S("jira.condition.container.block"),
             value |-> JObj([k \in {} |-> JNull])])]

BuildConditionJSON(condArgs, thenActions, elseActions) ==
    IF ArgOf(condArgs, "first") = <<>> \/ ArgOf(condArgs, "operator") = <<>>
    THEN [err |-> "condition requires 'first' and 'operator' args", raw |-> Invalid]
    ELSE IF AnyInvalid(thenActions) THEN [err |-> "parsing then action", raw |-> Invalid]
    ELSE IF AnyInvalid(elseActions) THEN [err |-> "parsing else action", raw |-> Invalid]
    ELSE [err |-> NoErr,
          raw |-> JObj([
             children |-> JArr(<<
                ConditionBlockJSON(
                   <<JObj([children |-> JArr(<<>>), component |-> S("CONDITION"),
                           conditions |-> JArr(<<>>), connectionId |-> JNull,
                           schemaVersion |-> JNum(1), type |-> S("jira.comparator.condition"),
                           value |-> JObj([first |-> JStr(ArgOf(condArgs, "first")),
                                           operator |-> JStr(ArgOf(condArgs, "operator")),
                                           second |-> JStr(ArgOf(condArgs, "second"))])])>>,
                   thenActions),
                ConditionBlockJSON(<<>>, elseActions)>>),
             component |-> S("CONDITION"), conditions |-> JArr(<<>>), connectionId |-> JNull,
             schemaVersion |-> JNum(1), type |-> S("jira.condition.container.block"),
             value |-> JObj([k \in {} |-> JNull])])]

\* args["debug"] = "true" when the flag is up and the action is the webhook
MarkDebug(args, userType, sawDebugLog) ==
    IF sawDebugLog /\ userType = <<"add_release_related_work">>
    THEN MapPut(args, "debug", <<"true">>) ELSE args

\* parseInnerActions, its loop from position i with the flag and the actions so far
RECURSIVE parseInnerActionsFrom(_, _, _, _, _, _)
parseInnerActionsFrom(raws, i, sawDebugLog, actions, reverse, sorted) ==
    IF i > Len(raws) THEN [err |-> NoErr, actions |-> actions]
    ELSE IF ~StringFieldOK(raws[i], "type") THEN [err |-> "parsing action type", msg |-> <<"parsing action type">>, actions |-> <<>>]
    ELSE IF StringField(raws[i], "type") = <<"codebarrel.action.log">>
            /\ ~StringFieldOK(raws[i], "value")
    THEN [err |-> "parsing log value", msg |-> <<"parsing log value">>, actions |-> <<>>]
    ELSE IF StringField(raws[i], "type") = <<"codebarrel.action.log">>
            /\ HasPrefix(StringField(raws[i], "value"), debugLogPrefix)
    THEN parseInnerActionsFrom(raws, i + 1, TRUE, actions, reverse, sorted)
    ELSE IF apiTypeToComponentUserType(StringField(raws[i], "type")) = <<>>
    THEN [err |-> "unrecognized component API type",
          msg |-> <<"unrecognized component API type: ">> \o StringField(raws[i], "type"),
          actions |-> <<>>]
    ELSE IF StringField(raws[i], "type") = <<"jira.issue.outgoing.webhook">>
            /\ ~StringFieldOK(StructField(raws[i], "value"), "url")
    THEN [err |-> "parsing webhook URL", msg |-> <<"parsing webhook URL">>, actions |-> <<>>]
    ELSE IF StringField(raws[i], "type") = <<"jira.issue.outgoing.webhook">>
            /\ ~HasSuffix(StringField(StructField(raws[i], "value"), "url"), <<"/relatedwork">>)
    THEN [err |-> "outgoing webhook URL does not match any known component type",
          msg |-> <<"outgoing webhook URL ">> \o StringField(StructField(raws[i], "value"), "url")
                    \o <<" does not match any known component type">>,
          actions |-> <<>>]
    ELSE IF RegistryParse(apiTypeToComponentUserType(StringField(raws[i], "type")), raws[i]).err # NoErr
    THEN [err |-> "parsing action",
          msg |-> <<"parsing action: ",
                    RegistryParse(apiTypeToComponentUserType(StringField(raws[i], "type")), raws[i]).err>>,
          actions |-> <<>>]
    ELSE parseInnerActionsFrom(raws, i + 1, FALSE,
            Append(actions,
               [Type |-> apiTypeToComponentUserType(StringField(raws[i], "type")),
                Args |-> unresolveAliases(
                    MarkDebug(RegistryParse(apiTypeToComponentUserType(StringField(raws[i], "type")),
                                            raws[i]).args,
                              apiTypeToComponentUserType(StringField(raws[i], "type")), sawDebugLog),
                    reverse, sorted)]),
            reverse, sorted)

\* a parseInnerActions whose flag starts set
parseInnerActionsStartsFlagged(raws, reverse, sorted) ==
    parseInnerActionsFrom(raws, 1, TRUE, <<>>, reverse, sorted)

parseInnerActions(raws, reverse, sorted) ==
    parseInnerActionsFrom(raws, 1, FALSE, <<>>, reverse, sorted)

\* the comparator's three strings, once the IF block and its first condition decode
ComparatorArgs(comparator) ==
    [k \in {"first", "operator", "second"} |-> StringField(StructField(comparator, "value"), k)]

\* the ELSE actions of a container: those of its second child, if it has one
\* with children
ElseActions(children, reverse, sorted) ==
    IF Len(children) < 2 THEN [err |-> NoErr, actions |-> <<>>]
    ELSE IF ~RawsFieldOK(children[2], "children")
    THEN [err |-> "parsing ELSE block", msg |-> <<"parsing ELSE block">>, actions |-> <<>>]
    ELSE IF parseInnerActions(RawsField(children[2], "children"), reverse, sorted).err # NoErr
    THEN [err |-> "parsing else actions",
          msg |-> <<"parsing else actions: ">>
                    \o parseInnerActions(RawsField(children[2], "children"), reverse, sorted).msg,
          actions |-> <<>>]
    ELSE parseInnerActions(RawsField(children[2], "children"), reverse, sorted)

NoModel == [Type |-> <<>>, Args |-> <<>>, Then |-> <<>>, Else |-> <<>>]

parseConditionContainer(raw, reverse, sorted) ==
    IF ~RawsFieldOK(raw, "children") THEN [err |-> "parsing condition container", msg |-> <<"parsing condition container">>, model |-> NoModel]
    ELSE IF Len(RawsField(raw, "children")) < 1
    THEN [err |-> "condition container has no children", msg |-> <<"condition container has no children">>, model |-> NoModel]
    ELSE CHOOSE out \in {
           IF ~RawsFieldOK(ifBlock, "conditions") \/ ~RawsFieldOK(ifBlock, "children")
           THEN [err |-> "parsing IF block", msg |-> <<"parsing IF block">>, model |-> NoModel]
           ELSE IF Len(RawsField(ifBlock, "conditions")) < 1
           THEN [err |-> "IF block has no conditions", msg |-> <<"IF block has no conditions">>, model |-> NoModel]
           ELSE IF \/ ~DecodesToStruct(RawsField(ifBlock, "conditions")[1])
                   \/ \E k \in {"first", "operator", "second"} :
                        ~StringFieldOK(StructField(RawsField(ifBlock, "conditions")[1], "value"), k)
           THEN [err |-> "parsing comparator condition", msg |-> <<"parsing comparator condition">>, model |-> NoModel]
           ELSE IF parseInnerActions(RawsField(ifBlock, "children"), reverse, sorted).err # NoErr
           THEN [err |-> "parsing then actions",
                 msg |-> <<"parsing then actions: ">>
                           \o parseInnerActions(RawsField(ifBlock, "children"), reverse, sorted).msg,
                 model |-> NoModel]
           ELSE IF ElseActions(RawsField(raw, "children"), reverse, sorted).err # NoErr
           THEN [err |-> ElseActions(RawsField(raw, "children"), reverse, sorted).err,
                 msg |-> ElseActions(RawsField(raw, "children"), reverse, sorted).msg,
                 model |-> NoModel]
           ELSE [err |-> NoErr,
                 model |-> [Type |-> <<"condition">>,
                            Args |-> unresolveAliases(
                                       ComparatorArgs(RawsField(ifBlock, "conditions")[1]),
                                       reverse, sorted),
                            Then |-> parseInnerActions(RawsField(ifBlock, "children"),
                                                       reverse, sorted).actions,
                            Else |-> ElseActions(RawsField(raw, "children"), reverse, sorted).actions]] :
             ifBlock \in {RawsField(raw, "children")[1]}} : TRUE

buildInnerAction(action, cloudID, webhookUser, webhookToken, aliases, sorted) ==
    buildActionWithDebug(action.Type, resolveAliases(action.Args, aliases, sorted),
                         cloudID, webhookUser, webhookToken)

\* BuildComponentsJSON, its loop over comp.Then or comp.Else from position j
RECURSIVE buildInnerActionsFrom(_, _, _, _, _, _, _, _)
buildInnerActionsFrom(actions, j, raws, cloudID, webhookUser, webhookToken, aliases, sorted) ==
    IF j > Len(actions) THEN [err |-> NoErr, raws |-> raws]
    ELSE IF buildInnerAction(actions[j], cloudID, webhookUser, webhookToken, aliases, sorted).err # NoErr
    THEN [err |-> "component then/else", raws |-> <<>>]
    ELSE buildInnerActionsFrom(actions, j + 1,
            raws \o buildInnerAction(actions[j], cloudID, webhookUser, webhookToken, aliases, sorted).raws,
            cloudID, webhookUser, webhookToken, aliases, sorted)

\* BuildComponentsJSON, one component: the entries it appends
buildComponent(comp, cloudID, webhookUser, webhookToken, aliases, sorted) ==
    IF comp.Type # <<"condition">>
    THEN buildActionWithDebug(comp.Type, resolveAliases(comp.Args, aliases, sorted),
                              cloudID, webhookUser, webhookToken)
    ELSE CHOOSE out \in {
           IF t.err # NoErr THEN [err |-> t.err, raws |-> <<>>]
           ELSE IF e.err # NoErr THEN [err |-> e.err, raws |-> <<>>]
           ELSE IF BuildConditionJSON(resolveAliases(comp.Args, aliases, sorted), t.raws, e.raws).err # NoErr
           THEN [err |-> "component condition", raws |-> <<>>]
           ELSE [err |-> NoErr,
                 raws |-> <<BuildConditionJSON(resolveAliases(comp.Args, aliases, sorted),
                                               t.raws, e.raws).raw>>] :
             t \in {buildInnerActionsFrom(comp.Then, 1, <<>>, cloudID, webhookUser, webhookToken,
                                          aliases, sorted)},
             e \in {buildInnerActionsFrom(comp.Else, 1, <<>>, cloudID, webhookUser, webhookToken,
                                          aliases, sorted)}} : TRUE

RECURSIVE BuildComponentsJSONFrom(_, _, _, _, _, _, _, _)
BuildComponentsJSONFrom(components, i, result, cloudID, webhookUser, webhookToken, aliases, sorted) ==
    IF i > Len(components) THEN [err |-> NoErr, raws |-> result]
    ELSE IF buildComponent(components[i], cloudID, webhookUser, webhookToken, aliases, sorted).err # NoErr
    THEN [err |-> "component", raws |-> <<>>]
    ELSE BuildComponentsJSONFrom(components, i + 1,
            result \o buildComponent(components[i], cloudID, webhookUser, webhookToken, aliases, sorted).raws,
            cloudID, webhookUser, webhookToken, aliases, sorted)

\* BuildComponentsJSON; sorted is what sortedKeys(aliases) returns in resolveAliases
BuildComponentsJSON(components, cloudID, webhookUser, webhookToken, aliases, sorted) ==
    BuildComponentsJSONFrom(components, 1, <<>>, cloudID, webhookUser, webhookToken, aliases, sorted)

\* ParseComponents, its loop from position i with the flag and the result so far
RECURSIVE ParseComponentsFrom(_, _, _, _, _, _)
ParseComponentsFrom(raws, i, sawDebugLog, result, reverse, sorted) ==
    IF i > Len(raws) THEN [err |-> NoErr, components |-> result]
    ELSE IF ~StringFieldOK(raws[i], "type") THEN [err |-> "parsing type", msg |-> <<"component: parsing type">>, components |-> <<>>]
    ELSE IF StringField(raws[i], "type") = <<"codebarrel.action.log">>
            /\ ~StringFieldOK(raws[i], "value")
    THEN [err |-> "parsing log value", msg |-> <<"component: parsing log value">>, components |-> <<>>]
    ELSE IF StringField(raws[i], "type") = <<"codebarrel.action.log">>
            /\ HasPrefix(StringField(raws[i], "value"), debugLogPrefix)
    THEN ParseComponentsFrom(raws, i + 1, TRUE, result, reverse, sorted)
    ELSE IF StringField(raws[i], "type") = <<"jira.condition.container.block">>
    THEN IF parseConditionContainer(raws[i], reverse, sorted).err # NoErr
         THEN [err |-> "component",
               msg |-> <<"component: ">> \o parseConditionContainer(raws[i], reverse, sorted).msg,
               components |-> <<>>]
         ELSE ParseComponentsFrom(raws, i + 1, FALSE,
                 Append(result, parseConditionContainer(raws[i], reverse, sorted).model),
                 reverse, sorted)
    ELSE IF apiTypeToComponentUserType(StringField(raws[i], "type")) = <<>>
    THEN [err |-> "unrecognized API type",
          msg |-> <<"component: unrecognized API type ">> \o StringField(raws[i], "type"),
          components |-> <<>>]
    ELSE IF RegistryParse(apiTypeToComponentUserType(StringField(raws[i], "type")), raws[i]).err # NoErr
    THEN [err |-> "component",
          msg |-> <<"component: ",
                    RegistryParse(apiTypeToComponentUserType(StringField(raws[i], "type")), raws[i]).err>>,
          components |-> <<>>]
    ELSE ParseComponentsFrom(raws, i + 1, FALSE,
            Append(result,
               [Type |-> apiTypeToComponentUserType(StringField(raws[i], "type")),
                Args |-> unresolveAliases(
                    MarkDebug(RegistryParse(apiTypeToComponentUserType(StringField(raws[i], "type")),
                                            raws[i]).args,
                              apiTypeToComponentUserType(StringField(raws[i], "type")), sawDebugLog),
                    reverse, sorted),
                Then |-> <<>>, Else |-> <<>>]),
            reverse, sorted)

\* ParseComponents; sorted is what sortedKeys(reverse) returns in unresolveAliases
ParseComponents(raws, reverse, sorted) ==
    ParseComponentsFrom(raws, 1, FALSE, <<>>, reverse, sorted)

-----------------------------------------------------------------------------
(* internal/provider: the trigger codec *)

\* triggerRegistry: the API type of a user-facing trigger type, <<>> when unknown
TriggerApiType(userType) ==
    IF userType = <<"status_transition">> THEN <<"jira.issue.event.trigger:transitioned">> ELSE <<>>
apiTypeToUserType(apiType) ==
    IF apiType = <<"jira.issue.event.trigger:transitioned">> THEN <<"status_transition">> ELSE <<>>

StatusName(value) == JArr(<<JObj([type |-> S("NAME"), value |-> JStr(value)])>>)

\* buildStatusTransition writing the two status names into each other's place
buildStatusTransitionSwapsStatuses(args, cloudID, projectID) ==
    IF ArgOf(args, "from_status") = <<>> \/ ArgOf(args, "to_status") = <<>>
    THEN [err |-> "status_transition requires from_status and to_status args", raw |-> Invalid]
    ELSE [err |-> NoErr,
          raw |-> JObj([component |-> S("TRIGGER"), conditions |-> JArr(<<>>),
                        connectionId |-> JNull, schemaVersion |-> JNum(1),
                        type |-> S("jira.issue.event.trigger:transitioned"),
                        value |-> JObj([eventFilters |-> JArr(<<JStr(ProjectARI(cloudID, projectID))>>),
                                        eventKey |-> S("jira:issue_updated"),
                                        issueEvent |-> S("issue_generic"),
                                        fromStatus |-> StatusName(args["to_status"]),
                                        toStatus |-> StatusName(args["from_status"])])])]

\* a buildStatusTransition that does not ask for its two args
buildStatusTransitionAcceptsEmpty(args, cloudID, projectID) ==
    [err |-> NoErr,
     raw |-> JObj([component |-> S("TRIGGER"), conditions |-> JArr(<<>>),
                   connectionId |-> JNull, schemaVersion |-> JNum(1),
                   type |-> S("jira.issue.event.trigger:transitioned"),
                   value |-> JObj([eventFilters |-> JArr(<<JStr(ProjectARI(cloudID, projectID))>>),
                                   eventKey |-> S("jira:issue_updated"),
                                   issueEvent |-> S("issue_generic"),
                                   fromStatus |-> StatusName(ArgOf(args, "from_status")),
                                   toStatus |-> StatusName(ArgOf(args, "to_status"))])])]

buildStatusTransition(args, cloudID, projectID) ==
    IF ArgOf(args, "from_status") = <<>> \/ ArgOf(args, "to_status") = <<>>
    THEN [err |-> "status_transition requires from_status and to_status args", raw |-> Invalid]
    ELSE [err |-> NoErr,
          raw |-> JObj([component |-> S("TRIGGER"), conditions |-> JArr(<<>>),
                        connectionId |-> JNull, schemaVersion |-> JNum(1),
                        type |-> S("jira.issue.event.trigger:transitioned"),
                        value |-> JObj([eventFilters |-> JArr(<<JStr(ProjectARI(cloudID, projectID))>>),
                                        eventKey |-> S("jira:issue_updated"),
                                        issueEvent |-> S("issue_generic"),
                                        fromStatus |-> StatusName(args["from_status"]),
                                        toStatus |-> StatusName(args["to_status"])])])]

BuildTriggerJSON(triggerType, args, cloudID, projectID) ==
    IF TriggerApiType(triggerType) = <<>> THEN [err |-> "unknown trigger type", raw |-> Invalid]
    ELSE buildStatusTransition(args, cloudID, projectID)

\* a []struct{Value string} field decodes from an array of objects or nulls, or null
StatusFieldOK(value, k) ==
    Has(value, k) =>
       /\ value.v[k].t \in {"arr", "null"}
       /\ \A i \in 1..Len(ElemsOf(value.v[k])) :
             /\ DecodesToStruct(ElemsOf(value.v[k])[i])
             /\ StringFieldOK(ElemsOf(value.v[k])[i], "value")
FirstStatus(value, k) == StringField(ElemsOf(value.v[k])[1], "value")

parseStatusTransition(raw) ==
    IF ~(/\ DecodesToStruct(raw)
         /\ DecodesToStruct(StructField(raw, "value"))
         /\ StatusFieldOK(StructField(raw, "value"), "fromStatus")
         /\ StatusFieldOK(StructField(raw, "value"), "toStatus"))
    THEN [err |-> "parsing status_transition", args |-> <<>>]
    ELSE [err |-> NoErr,
          args |-> [k \in {x \in {"from_status", "to_status"} :
                             \E v \in {StructField(raw, "value")} :
                                \E f \in {IF x = "from_status" THEN "fromStatus" ELSE "toStatus"} :
                                   Has(v, f) /\ ElemsOf(v.v[f]) # <<>>} |->
                      FirstStatus(StructField(raw, "value"),
                                  IF k = "from_status" THEN "fromStatus" ELSE "toStatus")]]

ParseTrigger(raw) ==
    IF ~StringFieldOK(raw, "type") THEN [err |-> "parsing trigger type", msg |-> <<"parsing trigger type">>, type |-> <<>>, args |-> <<>>]
    ELSE IF apiTypeToUserType(StringField(raw, "type")) = <<>>
    THEN [err |-> "unrecognized API trigger type",
          msg |-> <<"unrecognized API trigger type: ">> \o StringField(raw, "type"),
          type |-> <<>>, args |-> <<>>]
    ELSE IF parseStatusTransition(raw).err # NoErr
    THEN [err |-> "parsing trigger args",
          msg |-> <<"parsing trigger args for status_transition: ", parseStatusTransition(raw).err>>,
          type |-> <<>>, args |-> <<>>]
    ELSE [err |-> NoErr, type |-> apiTypeToUserType(StringField(raw, "type")),
          args |-> parseStatusTransition(raw).args]

-----------------------------------------------------------------------------
(* SpecUpdate: Client.UpdateRule against fetched rules of many shapes *)

\* sample triggers and components, with and without API-assigned fields
TrigCreated ==
    JObj([component |-> S("TRIGGER"), type |-> S("jira.issue.event.trigger:created"),
          id |-> S("41"), parentId |-> S("root"), value |-> JObj([id |-> S("inner")])])
TrigManual ==
    JObj([component |-> S("TRIGGER"), type |-> S("jira.manual.trigger.issue"),
          children |-> JArr(<<>>), conditions |-> JArr(<<JObj([id |-> S("42"), type |-> S("c")])>>)])
ActLog ==
    JObj([component |-> S("ACTION"), type |-> S("codebarrel.action.log"),
          id |-> S("7"), parentId |-> S("3"), value |-> S("hello")])
ActComment ==
    JObj([component |-> S("ACTION"), type |-> S("jira.issue.comment"),
          value |-> JObj([comment |-> S("hi"), id |-> S("kept")]),
          children |-> JArr(<<>>), conditions |-> JArr(<<>>)])
CondBlock ==
    JObj([component |-> S("CONDITION"), type |-> S("jira.condition.container.block"), id |-> S("c1"),
          children |-> JArr(<<
              JObj([component |-> S("CONDITION_BLOCK"), type |-> S("jira.condition.if.block"),
                    id |-> S("c2"), parentId |-> S("c1"),
                    conditions |-> JArr(<<JObj([component |-> S("CONDITION"), id |-> S("c3"),
                                                conditionParentId |-> S("c2")])>>),
                    children |-> JArr(<<ActLog, S("stray")>>)])>>)])
OddChildren ==
    JObj([component |-> S("ACTION"), type |-> S("odd"), id |-> S("9"), children |-> S("none")])

UpdateNames == {<<"n1">>, <<"n2">>}
UpdateTriggers == {TrigCreated, TrigManual, Invalid}
UpdateComponents ==
    {<<>>, <<ActLog, ActComment>>, <<ActComment, ActLog>>, <<CondBlock>>,
     <<OddChildren, S("text")>>, <<ActLog, Invalid>>}
RuleUpdateRequests ==
    [Name : UpdateNames, Trigger : UpdateTriggers, Components : UpdateComponents]

\* rules as the API may return them: what CreateRule posted, then edited by
\* other hands (state, labels, description, collaborators)
FetchedExtras ==
    { [k \in {} |-> JNull],
      [k \in {"description"} |-> S("by hand")],
      [k \in {"description", "collaborators"} |-> IF k = "description" THEN JNull ELSE JArr(<<S("bob")>>)] }
FetchedRule(extra, state, labels) ==
    CHOOSE out \in {
        JObj([k \in (DOMAIN base.v) \cup (DOMAIN extra) |->
                CASE k \in DOMAIN extra -> extra[k]
                  [] k = "state" -> S(state)
                  [] k = "labels" -> JArr(labels)
                  [] OTHER -> base.v[k]]) :
                      base \in {ServerStore(UUIDs[1], CreateRulePayload(
            [Name |-> <<"n1">>, ProjectID |-> ProjectID, Trigger |-> TrigManual,
             Components |-> <<ActComment>>]))}} : TRUE
FetchedRules ==
    { FetchedRule(e, st, l) : e \in FetchedExtras, st \in {"ENABLED", "DISABLED"},
                              l \in {<<>>, <<S("team-a"), JStr(ManagedLabel)>>} }

UpdateFails == {NoFail} \cup [at : 1..2, kind : FailKinds]

NoState == [present |-> FALSE]

\* the inputs of one call are drawn here: the rule the API holds, the
\* identifier asked for, the desired fields and the request that fails
InitUpdate ==
    /\ remote \in {[u \in {UUIDs[1]} |-> r] : r \in FetchedRules}
    /\ labelDefs = <<>>
    /\ tfstate = NoState
    /\ reqs = <<>>
    /\ diag \in [op : {"input"}, uuid : {UUIDs[1], UUIDs[2]}, update : RuleUpdateRequests,
                  fail : UpdateFails]
    /\ codec = [op |-> "none"]

\* one call of Client.UpdateRule
CallUpdateRule ==
    /\ diag.op = "input"
    /\ \E res \in {UpdateRule(Ctx(remote, labelDefs, diag.fail), diag.uuid, diag.update)} :
          /\ remote' = res.c.rem
          /\ reqs' = res.c.reqs
          /\ diag' = [op |-> "UpdateRule", uuid |-> diag.uuid, update |-> diag.update,
                      fail |-> diag.fail, before |-> remote, err |-> res.err, panic |-> res.panic]
          /\ UNCHANGED <<labelDefs, tfstate, codec>>

NextUpdate == CallUpdateRule

SpecUpdate == InitUpdate /\ [][NextUpdate]_vars

\* the nodes directly under a node, and all nodes of a tree, following
\* "children" and "conditions"
Kids(j) ==
    UNION { {ElemsOf(j.v[k])[i] : i \in 1..Len(ElemsOf(j.v[k]))} :
            k \in {"children", "conditions"} \cap DOMAIN j.v }
RECURSIVE Reach(_)
Reach(j) == IF ~IsObj(j) THEN {} ELSE {j} \cup UNION {Reach(x) : x \in Kids(j)}

\* a tree without the API-assigned fields of its nodes
RECURSIVE Plain(_)
Plain(j) ==
    IF ~IsObj(j) THEN j
    ELSE JObj([k \in (DOMAIN j.v) \ {"id", "parentId", "conditionParentId"} |->
                 IF k \in {"children", "conditions"} /\ IsArr(j.v[k])
                 THEN JArr([i \in 1..Len(j.v[k].v) |-> Plain(j.v[k].v[i])])
                 ELSE j.v[k]])

NodeHasNoIDs(n) ==
    /\ "id" \notin DOMAIN n.v
    /\ "parentId" \in DOMAIN n.v /\ n.v["parentId"] = JNull
    /\ "conditionParentId" \in DOMAIN n.v /\ n.v["conditionParentId"] = JNull

\* UpdateRule has sent its PUT
PutSent == diag.op = "UpdateRule" /\ Len(reqs) = 2
PutRule == reqs[2].body.v["rule"]
UpdateInputsValid ==
    diag.update.Trigger # Invalid /\ ~AnyInvalid(diag.update.Components)

\* C3: the PUT of UpdateRule carries the envelope {"rule": R}; R has no uuid,
\* created or updated; R.name, R.trigger and R.components are the desired
\* ones, the components in the desired order (an empty list is written as
\* null); every node of R.trigger and R.components reachable through
\* children and conditions has no id and null parentId and conditionParentId.
\* The PUT is sent whenever the GET answered with the rule and the desired
\* trigger and components are JSON.
UpdatePutCarriesDesired ==
    /\ (diag.op = "UpdateRule" /\ Len(reqs) >= 1)
         => reqs[1] = Req("GET", "rule", <<diag.uuid>>, NoBody)
    /\ (diag.op = "UpdateRule" /\ diag.uuid \in DOMAIN diag.before
          /\ diag.fail.at # 1 /\ UpdateInputsValid) => PutSent
    /\ PutSent =>
         /\ reqs[2].m = "PUT" /\ reqs[2].kind = "rule" /\ reqs[2].path = <<diag.uuid>>
         /\ IsObj(reqs[2].body) /\ DOMAIN reqs[2].body.v = {"rule"} /\ IsObj(PutRule)
         /\ (DOMAIN PutRule.v) \cap {"uuid", "created", "updated"} = {}
         /\ {"name", "trigger", "components"} \subseteq DOMAIN PutRule.v
         /\ PutRule.v["name"] = JStr(diag.update.Name)
         /\ Plain(PutRule.v["trigger"]) = Plain(diag.update.Trigger)
         /\ PutRule.v["components"].t \in {"arr", "null"}
         /\ Len(ElemsOf(PutRule.v["components"])) = Len(diag.update.Components)
         /\ \A i \in 1..Len(diag.update.Components) :
                Plain(ElemsOf(PutRule.v["components"])[i]) = Plain(diag.update.Components[i])
         /\ \A n \in Reach(PutRule.v["trigger"]) : NodeHasNoIDs(n)
         /\ \A i \in 1..Len(diag.update.Components) :
                \A n \in Reach(ElemsOf(PutRule.v["components"])[i]) : NodeHasNoIDs(n)

\* a PUT went out for a condition tree with assigned ids at three depths,
\* under a trigger with an id of its own
UpdatePutCarriesDesiredWitness ==
    /\ PutSent /\ diag.err = NoErr
    /\ diag.update.Components = <<CondBlock>>
    /\ diag.update.Trigger = TrigCreated
    /\ "uuid" \in DOMAIN diag.before[diag.uuid].v
    /\ Cardinality(Reach(PutRule.v["components"].v[1])) = 4

\* C4: every field of the fetched rule other than uuid, created, updated,
\* name, trigger and components is in the PUT payload with the fetched value,
\* and the payload has no field besides these and name/trigger/components.
UpdatePutKeepsFetchedFields ==
    PutSent =>
        \E F \in {diag.before[diag.uuid].v} :
          \E kept \in {(DOMAIN F) \ {"uuid", "created", "updated", "name", "trigger", "components"}} :
            /\ \A k \in kept : k \in DOMAIN PutRule.v /\ PutRule.v[k] = F[k]
            /\ DOMAIN PutRule.v = kept \cup {"name", "trigger", "components"}

\* a PUT went out for a fetched rule that is enabled, labelled and described,
\* with another name than the fetched one
UpdatePutKeepsFetchedFieldsWitness ==
    /\ PutSent /\ diag.err = NoErr
    /\ \E F \in {diag.before[diag.uuid].v} :
          /\ F["state"] = S("ENABLED")
          /\ F["labels"] = JArr(<<S("team-a"), JStr(ManagedLabel)>>)
          /\ {"description", "collaborators", "actor", "ruleScopeARIs"} \subseteq DOMAIN F
          /\ F["name"] # JStr(diag.update.Name)
          /\ PutRule.v["labels"] = F["labels"]

-----------------------------------------------------------------------------
(* SpecCodec: BuildComponentsJSON, then ParseComponents of what it built *)

\* the longest components list drawn
MaxComponents == 2

Args1(k1, v1) == [k \in {k1} |-> v1]
ReleaseArgs(versionField, title) ==
    [k \in {"version_field", "category", "title", "url"} |->
        CASE k = "version_field" -> versionField
          [] k = "category" -> <<"other">>
          [] k = "title" -> title
          [] OTHER -> <<"https://example.com">>]
Action(type, args) == [Type |-> type, Args |-> args, Then |-> <<>>, Else |-> <<>>]
Inner(type, args) == [Type |-> type, Args |-> args]
Condition(args, then, else) == [Type |-> <<"condition">>, Args |-> args, Then |-> then, Else |-> else]
CompareArgs ==
    [k \in {"first", "operator", "second"} |->
        CASE k = "first" -> <<"{{issue.", "rel", "}}">>
          [] k = "operator" -> <<"NOT_EQUALS">>
          [] OTHER -> <<>>]

\* components a configuration may hold: valid ones of every type, with and
\* without the debug arg, and ones the builders refuse
SampleComponents ==
    { Action(<<"log">>, Args1("message", <<"hi">>)),
      Action(<<"log">>, Args1("message", debugLogPrefix \o <<"hi">>)),
      Action(<<"log">>, MapPut(Args1("message", <<"hi">>), "debug", <<"true">>)),
      Action(<<"comment">>, Args1("message", <<"{{issue.", "rel", ".", "name", "}}">>)),
      Action(<<"comment">>, MapPut(Args1("message", <<"hi">>), "debug", <<"true">>)),
      Action(<<"add_release_related_work">>, ReleaseArgs(<<"rel">>, <<"Deploy X">>)),
      Action(<<"add_release_related_work">>,
             MapPut(ReleaseArgs(<<"customfield_10020">>, <<"say ", "\"", "hi">>), "debug", <<"true">>)),
      Action(<<"add_release_related_work">>, ReleaseArgs(<<"fixVersions", ".", "id">>, <<"Deploy X">>)),
      Condition(CompareArgs,
                <<Inner(<<"add_release_related_work">>,
                        MapPut(ReleaseArgs(<<"rel">>, <<"Deploy X">>), "debug", <<"true">>))>>,
                <<Inner(<<"log">>, MapPut(Args1("message", <<"no">>), "debug", <<"true">>))>>),
      Condition(CompareArgs, <<Inner(<<"comment">>, Args1("message", <<"hi">>))>>, <<>>),
      Condition(CompareArgs, <<>>, <<Inner(<<"log">>, Args1("message", <<"hi">>))>>),
      Condition(CompareArgs,
                <<Inner(<<"log">>, Args1("message", debugLogPrefix \o <<"hi">>)),
                  Inner(<<"comment">>, Args1("message", <<"hi">>))>>,
                <<>>),
      Action(<<"log">>, <<>>),
      Action(<<"webhook">>, Args1("message", <<"hi">>)),
      Condition(Args1("first", <<"a">>), <<>>, <<>>) }

RECURSIVE SeqsUpTo(_, _)
SeqsUpTo(set, n) ==
    IF n = 0 THEN {<<>>}
    ELSE SeqsUpTo(set, n - 1) \cup {Append(q, x) : q \in SeqsUpTo(set, n - 1), x \in set}

\* the provider configurations: with and without a field alias, with and
\* without the webhook credentials
AliasTables == {<<>>, [k \in {<<"rel">>} |-> <<"customfield_10020">>]}
\* client.New: the reverse tables the loop over the aliases may build
ReverseTables(aliases) ==
    {r \in [{aliases[a] : a \in DOMAIN aliases} -> DOMAIN aliases] :
        \A f \in DOMAIN r : aliases[r[f]] = f}
Clients ==
    {[CloudID |-> CloudID, WebhookUser |-> u, WebhookToken |-> <<"tok">>,
      FieldAliases |-> al, ReverseAliases |-> rv] :
        u \in {<<"bot">>, <<>>}, al \in AliasTables, rv \in UNION {ReverseTables(x) : x \in AliasTables}}

InitCodec ==
    /\ remote = <<>> /\ labelDefs = <<>> /\ tfstate = NoState /\ reqs = <<>>
    /\ diag = [op |-> "none"]
    /\ codec \in {[op |-> "input", components |-> cs, client |-> cl] :
                    cs \in SeqsUpTo(SampleComponents, MaxComponents),
                    cl \in {c \in Clients : c.ReverseAliases \in ReverseTables(c.FieldAliases)}}

\* resolveComponentsJSON's call of BuildComponentsJSON
Build ==
    /\ codec.op = "input"
    /\ \E sorted \in sortedKeys(codec.client.FieldAliases) :
         codec' = [op |-> "built", components |-> codec.components, client |-> codec.client,
                   sorted |-> sorted,
                   built |-> BuildComponentsJSON(codec.components, codec.client.CloudID,
                                codec.client.WebhookUser, codec.client.WebhookToken,
                                codec.client.FieldAliases, sorted)]
    /\ UNCHANGED <<remote, labelDefs, tfstate, reqs, diag>>

\* readIntoModel's call of ParseComponents, on the entries as built or as
\* the API returns them once stored
Parse ==
    /\ codec.op = "built" /\ codec.built.err = NoErr
    /\ \E sorted \in sortedKeys(codec.client.ReverseAliases), stored \in BOOLEAN :
         codec' = [op |-> "parsed", components |-> codec.components, client |-> codec.client,
                   sorted |-> codec.sorted, built |-> codec.built, stored |-> stored,
                   parsed |-> ParseComponents(
                       [i \in 1..Len(codec.built.raws) |->
                           IF stored THEN AssignIDs(codec.built.raws[i], JNull, "none")
                           ELSE codec.built.raws[i]],
                       codec.client.ReverseAliases, sorted)]
    /\ UNCHANGED <<remote, labelDefs, tfstate, reqs, diag>>

\* triggers and components of rules made in the Jira UI
RemoteTriggers ==
    {TrigCreated, TrigManual, JObj([component |-> S("TRIGGER")]),
     JObj([component |-> S("TRIGGER"), type |-> S("jira.issue.event.trigger:transitioned"),
           value |-> JObj([fromStatus |-> JArr(<<>>), toStatus |-> StatusName(<<"Done">>)])])}

ActAssign ==
    JObj([component |-> S("ACTION"), type |-> S("jira.issue.assign"), id |-> S("11"),
          value |-> JObj([assignType |-> S("SPECIFY_USER")])])
RemoteComponents ==
    { ActLog, ActComment, ActAssign,
      JObj([component |-> S("ACTION"), value |-> S("untyped")]),
      ActionJSON(1, <<"jira.issue.outgoing.webhook">>, JObj([url |-> S("https://example.com")])),
      BuildConditionJSON(CompareArgs, <<ActLog, ActAssign>>, <<>>).raw,
      BuildConditionJSON(CompareArgs, <<ActLog>>, <<ActComment, ActAssign>>).raw,
      BuildConditionJSON(CompareArgs, <<ActComment>>, <<ActLog>>).raw,
      CondBlock }

\* readIntoModel's calls of ParseTrigger and ParseComponents on a rule that
\* was imported
ParseRemote ==
    /\ codec.op = "input" /\ codec.components = <<>>
    /\ \E trigger \in RemoteTriggers, raws \in SeqsUpTo(RemoteComponents, MaxComponents),
          sorted \in sortedKeys(codec.client.ReverseAliases) :
         codec' = [op |-> "remote parsed", client |-> codec.client, trigger |-> trigger, raws |-> raws,
                   sorted |-> sorted,
                   parsedTrigger |-> ParseTrigger(trigger),
                   parsed |-> ParseComponents(raws, codec.client.ReverseAliases, sorted)]
    /\ UNCHANGED <<remote, labelDefs, tfstate, reqs, diag>>

NextCodec == Build \/ Parse \/ ParseRemote

SpecCodec == InitCodec /\ [][NextCodec]_vars

\* ---- claims on the component codec ----

\* the build of a configuration's components by the client of the state
BuildOf(components) ==
    BuildComponentsJSON(components, codec.client.CloudID, codec.client.WebhookUser,
                        codec.client.WebhookToken, codec.client.FieldAliases, codec.sorted)

IsDebugLog(raw) ==
    /\ StringField(raw, "type") = <<"codebarrel.action.log">>
    /\ HasPrefix(StringField(raw, "value"), debugLogPrefix)

Built == codec.op \in {"built", "parsed"}

\* one add_release_related_work action with its four args, built by a
\* client that holds the webhook credentials
BuiltOneRelease ==
    /\ Built /\ Len(codec.components) = 1
    /\ codec.components[1].Type = <<"add_release_related_work">>
    /\ \A k \in {"version_field", "category", "title", "url"} :
          ArgOf(codec.components[1].Args, k) # <<>>
    /\ codec.client.WebhookUser # <<>> /\ codec.client.WebhookToken # <<>>

\* C9: building an add_release_related_work action with valid arguments and
\* debug = "true" yields exactly 5 entries, 4 log entries whose value starts
\* with the debug prefix and then the webhook entry that the same arguments
\* without debug build; without debug it yields exactly 1 webhook entry.
DebugBuildIsFourLogsThenWebhook ==
    BuiltOneRelease =>
      /\ codec.built.err = NoErr
      /\ IF ArgOf(codec.components[1].Args, "debug") = <<"true">>
         THEN /\ Len(codec.built.raws) = 5
              /\ \A i \in 1..4 : IsDebugLog(codec.built.raws[i])
              /\ StringField(codec.built.raws[5], "type") = <<"jira.issue.outgoing.webhook">>
              /\ <<codec.built.raws[5]>> =
                   BuildOf(<<Action(<<"add_release_related_work">>,
                                    MapDelete(codec.components[1].Args, "debug"))>>).raws
         ELSE /\ Len(codec.built.raws) = 1
              /\ StringField(codec.built.raws[1], "type") = <<"jira.issue.outgoing.webhook">>

DebugBuildIsFourLogsThenWebhookWitness ==
    /\ BuiltOneRelease
    /\ ArgOf(codec.components[1].Args, "debug") = <<"true">>
    /\ Len(codec.built.raws) = 5 /\ IsDebugLog(codec.built.raws[4])
    /\ ~IsDebugLog(codec.built.raws[5])

Types(components) == [i \in 1..Len(components) |-> components[i].Type]

\* C8: for every list of N components that BuildComponentsJSON accepts,
\* ParseComponents of its output returns exactly N components of the same
\* types in the same order.
ParseOfBuildKeepsComponents ==
    codec.op = "parsed" =>
      /\ codec.parsed.err = NoErr
      /\ Len(codec.parsed.components) = Len(codec.components)
      /\ Types(codec.parsed.components) = Types(codec.components)

\* the entries of a built list and of the blocks below them, all of them
\* or the debug logs only
RECURSIVE EntriesIn(_, _)
EntriesIn(raws, onlyDebug) ==
    IF raws = <<>> THEN 0
    ELSE (IF onlyDebug => IsDebugLog(Head(raws)) THEN 1 ELSE 0)
         + (IF Has(Head(raws), "children") /\ IsArr(Head(raws).v["children"])
            THEN EntriesIn(Head(raws).v["children"].v, onlyDebug) ELSE 0)
         + EntriesIn(Tail(raws), onlyDebug)

\* an action with debug = "true"; releaseOnly asks for add_release_related_work
HasDebug(action, releaseOnly) ==
    /\ ArgOf(action.Args, "debug") = <<"true">>
    /\ releaseOnly => action.Type = <<"add_release_related_work">>
Among(actions, releaseOnly) ==
    Cardinality({j \in 1..Len(actions) : HasDebug(actions[j], releaseOnly)})

\* the debug actions of a configuration, top level and then/else
RECURSIVE DebugActionsFrom(_, _, _)
DebugActionsFrom(components, i, releaseOnly) ==
    IF i > Len(components) THEN 0
    ELSE (IF HasDebug(components[i], releaseOnly) THEN 1 ELSE 0)
         + Among(components[i].Then, releaseOnly) + Among(components[i].Else, releaseOnly)
         + DebugActionsFrom(components, i + 1, releaseOnly)

\* the configuration with the debug arg removed everywhere
WithoutDebugArg(actions) ==
    [j \in 1..Len(actions) |-> [Type |-> actions[j].Type, Args |-> MapDelete(actions[j].Args, "debug")]]
WithoutDebug(components) ==
    [i \in 1..Len(components) |->
        [Type |-> components[i].Type, Args |-> MapDelete(components[i].Args, "debug"),
         Then |-> WithoutDebugArg(components[i].Then),
         Else |-> WithoutDebugArg(components[i].Else)]]

BuiltOK == Built /\ codec.built.err = NoErr

\* C10: debug = "true" injects log actions for add_release_related_work
\* actions only, four per such action at top level or inside then/else;
\* on any other component it changes nothing; the configuration without
\* the arg builds the same rule less the injected logs.
DebugInjectsLogsForReleaseActionsOnly ==
    BuiltOK =>
      \A plain \in {BuildOf(WithoutDebug(codec.components))},
         n \in {DebugActionsFrom(codec.components, 1, TRUE)} :
           /\ plain.err = NoErr
           /\ EntriesIn(codec.built.raws, FALSE) = EntriesIn(plain.raws, FALSE) + 4 * n
           /\ EntriesIn(codec.built.raws, TRUE) = EntriesIn(plain.raws, TRUE) + 4 * n
           /\ n = 0 => codec.built.raws = plain.raws

DebugInjectsLogsForReleaseActionsOnlyWitness ==
    /\ BuiltOK
    /\ DebugActionsFrom(codec.components, 1, TRUE) = 2
    /\ DebugActionsFrom(codec.components, 1, FALSE) = 3
    /\ EntriesIn(codec.built.raws, TRUE) = 8
    /\ EntriesIn(BuildOf(WithoutDebug(codec.components)).raws, TRUE) = 0

\* C10 as stated: debug = "true" on any component injects log actions
DebugInjectsLogsForAnyComponent ==
    (BuiltOK /\ DebugActionsFrom(codec.components, 1, FALSE) > 0) =>
      EntriesIn(codec.built.raws, TRUE)
        > EntriesIn(BuildOf(WithoutDebug(codec.components)).raws, TRUE)

-----------------------------------------------------------------------------
(* internal/client: the label endpoints of the internal API *)

\* the Label struct decoded from one element of the answer
LabelOf(j) ==
    [ID |-> IF Has(j, "id") /\ j.v["id"].t = "num" THEN j.v["id"].v ELSE 0,
     Name |-> StringField(j, "name")]

\* client.go ListLabels: GET .../rule-labels of the project
ListLabels(c, projectID) ==
    CHOOSE out \in {
       IF d.neterr THEN [c |-> d.c, err |-> "listing labels", labels |-> <<>>]
       ELSE IF d.status # 200 THEN [c |-> d.c, err |-> "list labels returned", labels |-> <<>>]
       ELSE IF d.body.t \notin {"arr", "null"}
       THEN [c |-> d.c, err |-> "decoding labels", labels |-> <<>>]
       ELSE [c |-> d.c, err |-> NoErr,
             labels |-> [i \in 1..Len(ElemsOf(d.body)) |-> LabelOf(ElemsOf(d.body)[i])]] :
                      d \in {Do(c, Req("GET", "labels", <<projectID>>, NoBody))}} : TRUE

\* client.go AddLabelToRule: PUT .../rules/{uuid}/labels/{id}
AddLabelToRule(c, projectID, ruleUUID, labelID) ==
    CHOOSE out \in {
       IF d.neterr THEN [c |-> d.c, err |-> "adding label to rule"]
       ELSE IF d.status \notin {200, 204} THEN [c |-> d.c, err |-> "add label returned"]
       ELSE [c |-> d.c, err |-> NoErr] :
                      d \in {Do(c, Req("PUT", "ruleLabel", <<projectID, ruleUUID, labelID>>, NoBody))}} : TRUE

\* client.go ExtractProjectID: what follows the last ":project/" of the ARI
ExtractProjectID(ari) ==
    IF \E i \in 1..Len(ari) : ari[i] = ":project/"
    THEN SubSeq(ari, 1 + CHOOSE i \in 1..Len(ari) :
                           ari[i] = ":project/" /\ \A j \in (i + 1)..Len(ari) : ari[j] # ":project/",
                Len(ari))
    ELSE <<>>

\* the id of the first label with the name, 0 when there is none
LabelIDOf(labels, name) ==
    IF \E i \in 1..Len(labels) : labels[i].Name = name
    THEN labels[CHOOSE i \in 1..Len(labels) :
                  labels[i].Name = name /\ \A j \in 1..(i - 1) : labels[j].Name # name].ID
    ELSE 0

-----------------------------------------------------------------------------
(* internal/provider: the rule resource *)

\* a nullable JSON string attribute, a nullable trigger block, a nullable components list
NoJSON == [set |-> FALSE, v |-> JNull]
JSONAttr(v) == [set |-> TRUE, v |-> v]
NoTrigger == [set |-> FALSE, Type |-> <<>>, Args |-> <<>>]
TriggerBlock(type, args) == [set |-> TRUE, Type |-> type, Args |-> args]
NoComponents == [set |-> FALSE, list |-> <<>>]
ComponentList(list) == [set |-> TRUE, list |-> list]

\* the zero ruleResourceModel
ZeroModel ==
    [present |-> TRUE, ID |-> <<>>, Name |-> <<>>, Enabled |-> FALSE, State |-> <<>>,
     Scope |-> <<>>, Labels |-> <<>>, ProjectID |-> <<>>,
     Trigger |-> NoTrigger, TriggerJSON |-> NoJSON,
     Components |-> NoComponents, ComponentsJSON |-> NoJSON]

\* the provider's client configuration
ProviderAliases == [k \in {<<"rel">>} |-> <<"customfield_10020">>]
ProviderReverse == [k \in {<<"customfield_10020">>} |-> <<"rel">>]
WebhookUser == <<"bot">>
WebhookToken == <<"tok">>
SortedAliases == CHOOSE o \in sortedKeys(ProviderAliases) : TRUE
SortedReverse == CHOOSE o \in sortedKeys(ProviderReverse) : TRUE

\* a stripAPIFields that removes one generated field per pass
stripAPIFieldsOnePerPass(j) ==
    IF ~IsObj(j) THEN j
    ELSE IF "parentId" \in DOMAIN j.v THEN JObj(MapDelete(j.v, "parentId"))
    ELSE JObj(MapDelete(j.v, "id"))

RECURSIVE stripAPIFields(_)

\* stripAPIFields, the array under key k: deleted when empty, else every element stripped
StripAPIUnder(m, k) ==
    IF k \in DOMAIN m /\ IsArr(m[k])
    THEN IF m[k].v = <<>> THEN MapDelete(m, k)
         ELSE MapPut(m, k, JArr([i \in 1..Len(m[k].v) |-> stripAPIFields(m[k].v[i])]))
    ELSE m

\* stripAPIFields, the object under "value" without the fields the API adds
StripAPIValue(m) ==
    IF "value" \in DOMAIN m /\ IsObj(m["value"])
    THEN MapPut(m, "value",
                JObj(MapDelete(MapDelete(MapDelete(m["value"].v, "eventFilters"), "eventKey"), "issueEvent")))
    ELSE m

stripAPIFields(j) ==
    IF ~IsObj(j) THEN j
    ELSE JObj(StripAPIValue(StripAPIUnder(StripAPIUnder(
                MapDelete(MapDelete(MapDelete(MapDelete(j.v, "id"), "parentId"),
                                    "conditionParentId"), "connectionId"),
                "children"), "conditions")))

\* normalizeRawJSON and normalizeRawJSONArray: the value that the canonical text denotes
normalizeRawJSON(raw) ==
    IF raw = Invalid THEN [err |-> "invalid JSON", v |-> JNull]
    ELSE [err |-> NoErr, v |-> stripAPIFields(raw)]
normalizeRawJSONArray(raws) ==
    IF AnyInvalid(raws) THEN [err |-> "invalid JSON", v |-> JNull]
    ELSE [err |-> NoErr, v |-> JSlice([i \in 1..Len(raws) |-> stripAPIFields(raws[i])])]

\* parseComponentsJSON: the elements of the array the attribute's text denotes;
\* the slice is nil for the text null and empty, not nil, for the text []
parseComponentsJSON(attr) ==
    IF ~attr.set \/ attr.v.t \notin {"arr", "null"}
    THEN [err |-> "Invalid components_json", raws |-> <<>>, isNil |-> TRUE]
    ELSE [err |-> NoErr, raws |-> ElemsOf(attr.v), isNil |-> attr.v.t = "null"]

resolveTriggerJSON(model) ==
    IF model.Trigger.set
    THEN CHOOSE out \in {
           IF b.err # NoErr THEN [err |-> "Error building trigger JSON", raw |-> Invalid]
           ELSE [err |-> NoErr, raw |-> b.raw] :
             b \in {BuildTriggerJSON(model.Trigger.Type, model.Trigger.Args, CloudID,
                                     model.ProjectID)}} : TRUE
    ELSE [err |-> NoErr, raw |-> IF model.TriggerJSON.set THEN model.TriggerJSON.v ELSE Invalid]

resolveComponentsJSON(model) ==
    IF model.Components.set
    THEN CHOOSE out \in {
           IF b.err # NoErr THEN [err |-> "Error building components JSON", raws |-> <<>>]
           ELSE [err |-> NoErr, raws |-> b.raws] :
             b \in {BuildComponentsJSON(model.Components.list, CloudID, WebhookUser, WebhookToken,
                                        ProviderAliases, SortedAliases)}} : TRUE
    ELSE parseComponentsJSON(model.ComponentsJSON)

\* readIntoModel once the rule is fetched: t and cs are what the trigger
\* and the components give in the representation the model holds
ModelOf(rule, model) ==
    CHOOSE out \in {
       IF model.Trigger.set /\ t.err # NoErr
       THEN [err |-> "Error parsing trigger from API", model |-> model]
       ELSE IF t.err # NoErr THEN [err |-> "Error normalizing trigger", model |-> model]
       ELSE IF model.Components.set /\ cs.err # NoErr
       THEN [err |-> "Error parsing components from API", model |-> model]
       ELSE IF cs.err # NoErr THEN [err |-> "Error normalizing components", model |-> model]
       ELSE [err |-> NoErr,
             model |->
               [present |-> TRUE, ID |-> rule.UUID, Name |-> rule.Name, State |-> rule.State,
                Enabled |-> (rule.State = <<"ENABLED">>),
                Scope |-> rule.RuleScopeARIs, Labels |-> rule.Labels,
                ProjectID |-> model.ProjectID,
                Trigger |-> IF model.Trigger.set THEN TriggerBlock(t.type, t.args) ELSE NoTrigger,
                TriggerJSON |-> IF model.Trigger.set THEN model.TriggerJSON ELSE JSONAttr(t.v),
                Components |-> IF model.Components.set
                               THEN [set |-> cs.components # <<>>, list |-> cs.components]
                               ELSE NoComponents,
                ComponentsJSON |-> IF model.Components.set THEN model.ComponentsJSON
                                   ELSE JSONAttr(cs.v)]] :
          t \in {IF model.Trigger.set THEN ParseTrigger(rule.Trigger)
                 ELSE normalizeRawJSON(rule.Trigger)},
          cs \in {IF model.Components.set
                  THEN ParseComponents(rule.Components, ProviderReverse, SortedReverse)
                  ELSE normalizeRawJSONArray(rule.Components)}} : TRUE

\* readIntoModel: GET the rule and populate the model from it
readIntoModel(c, uuid, model) ==
    CHOOSE out \in {
       IF g.err # NoErr THEN [c |-> g.c, err |-> "Error reading rule", model |-> model]
       ELSE CHOOSE out2 \in {[c |-> g.c, err |-> mo.err, model |-> mo.model] :
                               mo \in {ModelOf(g.rule, model)}} : TRUE :
                      g \in {GetRule(c, uuid)}} : TRUE

\* syncManagedLabel: the warnings it adds; every failure is a warning
syncManagedLabel(c, uuid, model) ==
    IF Len(model.Scope) # 1 \/ ExtractProjectID(model.Scope[1]) = <<>>
    THEN [c |-> c, warnings |-> <<>>]
    ELSE CHOOSE out \in {
       IF l.err # NoErr THEN [c |-> l.c, warnings |-> <<"Could not list labels">>]
       ELSE IF LabelIDOf(l.labels, ManagedLabel) = 0
       THEN [c |-> l.c, warnings |-> <<"Label 'managed-by:terraform' not found">>]
       ELSE CHOOSE out2 \in {
              [c |-> a.c,
               warnings |-> IF a.err # NoErr
                            THEN <<"Could not tag rule with managed-by:terraform">> ELSE <<>>] :
                      a \in {AddLabelToRule(l.c, ExtractProjectID(model.Scope[1]), uuid,
                                            LabelIDOf(l.labels, ManagedLabel))}} : TRUE :
                      l \in {ListLabels(c, ExtractProjectID(model.Scope[1]))}} : TRUE

-----------------------------------------------------------------------------
(* Spec: the life cycle of one jira-automation_rule resource *)

\* configurations: structured or raw trigger and components, valid or not
TriggerArgs(from, to) ==
    [k \in {"from_status", "to_status"} |-> IF k = "from_status" THEN from ELSE to]
RawTrigger == JObj([component |-> S("TRIGGER"), type |-> S("jira.manual.trigger.issue")])
RawLog == JObj([component |-> S("ACTION"), type |-> S("codebarrel.action.log"), value |-> S("hello")])
PlanOf(projectID, trigger, triggerJSON, components, componentsJSON) ==
    [ZeroModel EXCEPT !.ProjectID = projectID, !.Trigger = trigger, !.TriggerJSON = triggerJSON,
                      !.Components = components, !.ComponentsJSON = componentsJSON]
Configs ==
    { PlanOf(ProjectID, TriggerBlock(<<"status_transition">>, TriggerArgs(<<"To Do">>, <<"Done">>)), NoJSON,
             ComponentList(<<Action(<<"log">>, Args1("message", <<"hi">>)),
                             Action(<<"add_release_related_work">>,
                                    MapPut(ReleaseArgs(<<"rel">>, <<"Deploy X">>), "debug", <<"true">>))>>),
             NoJSON),
      PlanOf(<<>>, NoTrigger, JSONAttr(RawTrigger), NoComponents, JSONAttr(JArr(<<RawLog>>))),
      PlanOf(ProjectID, TriggerBlock(<<"status_transition">>, TriggerArgs(<<"To Do">>, <<>>)), NoJSON,
             NoComponents, JSONAttr(JArr(<<RawLog>>))),
      PlanOf(ProjectID, NoTrigger, JSONAttr(RawTrigger),
             ComponentList(<<Action(<<"webhook">>, Args1("message", <<"hi">>))>>), NoJSON),
      PlanOf(ProjectID, NoTrigger, JSONAttr(RawTrigger), NoComponents, JSONAttr(RawLog)) }
Plans ==
    { [p EXCEPT !.Name = n, !.Enabled = e] : p \in Configs, n \in {<<"A">>}, e \in BOOLEAN }

\* the request of an operation that fails, if any: Create sends at most 6,
\* and only a GET or the POST reads the body of its answer
Fails == {NoFail} \cup [at : 1..6, kind : {"status", "lost"}] \cup [at : {1, 3}, kind : {"badbody"}]

Init ==
    /\ remote = <<>> /\ labelDefs \in {<<>>, <<ManagedLabel>>}
    /\ tfstate = NoState /\ reqs = <<>>
    /\ diag = [op |-> "none"] /\ codec = [op |-> "none"]

\* what an operation leaves: the server's state, the requests it sent, the
\* resource state Terraform keeps and the diagnostics of the response
Finish(op, uuid, enabled, c, state, errors, warnings) ==
    /\ remote' = c.rem /\ labelDefs' = c.labs /\ reqs' = c.reqs
    /\ tfstate' = state
    /\ diag' = [op |-> op, uuid |-> uuid, enabled |-> enabled, resps |-> c.resps,
                errors |-> errors, warnings |-> warnings]
    /\ UNCHANGED codec

\* Create and Update after the state toggle: read back, tag, read again, State.Set
ReadBackAndTag(op, c, uuid, plan, prior) ==
    \E r1 \in {readIntoModel(c, uuid, plan)} :
      IF r1.err # NoErr THEN Finish(op, uuid, plan.Enabled, r1.c, prior, <<r1.err>>, <<>>)
      ELSE \E l \in {syncManagedLabel(r1.c, uuid, r1.model)} :
             \E r2 \in {readIntoModel(l.c, uuid, r1.model)} :
               IF r2.err # NoErr THEN Finish(op, uuid, plan.Enabled, r2.c, prior, <<r2.err>>, l.warnings)
               ELSE Finish(op, uuid, plan.Enabled, r2.c, r2.model, <<>>, l.warnings)

\* ruleResource.Create, with the plan drawn from plans and the failure of the
\* operation from fails
CreateWith(plans, fails) ==
    /\ ~tfstate.present
    /\ Cardinality(DOMAIN remote) < MaxRules
    /\ \E plan \in plans :
         \E t \in {resolveTriggerJSON(plan)}, cs \in {resolveComponentsJSON(plan)} :
           IF t.err # NoErr
           THEN Finish("Create", <<>>, plan.Enabled, Ctx(remote, labelDefs, NoFail), NoState, <<t.err>>, <<>>)
           ELSE IF cs.err # NoErr
           THEN Finish("Create", <<>>, plan.Enabled, Ctx(remote, labelDefs, NoFail), NoState, <<cs.err>>, <<>>)
           ELSE \E fail \in fails :
             \E cr \in {CreateRule(Ctx(remote, labelDefs, fail),
                                   [Name |-> plan.Name, ProjectID |-> plan.ProjectID,
                                    Trigger |-> t.raw, Components |-> cs.raws])} :
               IF cr.err # NoErr
               THEN Finish("Create", cr.uuid, plan.Enabled, cr.c, NoState, <<"Error creating rule">>, <<>>)
               ELSE \E s \in {SetRuleState(cr.c, cr.uuid, plan.Enabled)} :
                 IF s.err # NoErr
                 THEN Finish("Create", cr.uuid, plan.Enabled, s.c, NoState,
                             <<"Error setting rule state after creation">>, <<>>)
                 ELSE ReadBackAndTag("Create", s.c, cr.uuid, plan, NoState)

\* ruleResource.Create
Create == CreateWith(Plans, Fails)

\* ruleResource.Read
Read ==
    /\ tfstate.present
    /\ \E fail \in {f \in Fails : f.at <= 1} :
         \E r \in {readIntoModel(Ctx(remote, labelDefs, fail), tfstate.ID, tfstate)} :
           IF r.err # NoErr THEN Finish("Read", tfstate.ID, tfstate.Enabled, r.c, tfstate, <<r.err>>, <<>>)
           ELSE Finish("Read", tfstate.ID, tfstate.Enabled, r.c, r.model, <<>>, <<>>)

\* ruleResource.Update, with the plan drawn from plans and the failure of the
\* operation from fails
UpdateWith(plans, fails) ==
    /\ tfstate.present
    /\ \E plan \in plans :
         \E t \in {resolveTriggerJSON(plan)}, cs \in {resolveComponentsJSON(plan)} :
           IF t.err # NoErr
           THEN Finish("Update", tfstate.ID, plan.Enabled, Ctx(remote, labelDefs, NoFail), tfstate, <<t.err>>, <<>>)
           ELSE IF cs.err # NoErr
           THEN Finish("Update", tfstate.ID, plan.Enabled, Ctx(remote, labelDefs, NoFail), tfstate, <<cs.err>>, <<>>)
           ELSE \E fail \in fails :
             \E u \in {UpdateRule(Ctx(remote, labelDefs, fail), tfstate.ID,
                                  [Name |-> plan.Name, Trigger |-> t.raw, Components |-> cs.raws])} :
               IF u.panic
               THEN Finish("Update", tfstate.ID, plan.Enabled, u.c, tfstate, <<"panic">>, <<>>)
               ELSE IF u.err # NoErr
               THEN Finish("Update", tfstate.ID, plan.Enabled, u.c, tfstate, <<"Error updating rule">>, <<>>)
               ELSE \E s \in {SetRuleState(u.c, tfstate.ID, plan.Enabled)} :
                 IF s.err # NoErr
                 THEN Finish("Update", tfstate.ID, plan.Enabled, s.c, tfstate, <<"Error setting rule state">>, <<>>)
                 ELSE ReadBackAndTag("Update", s.c, tfstate.ID, plan, tfstate)

\* ruleResource.Update
Update == UpdateWith(Plans, Fails)

\* ruleResource.Delete, the diagnostics of its response
DeleteDiagnosticsAlwaysWarn(err) ==
    [errors |-> <<>>, warnings |-> <<"Rule disabled, not deleted">>]

DeleteDiagnostics(err) ==
    IF err # NoErr THEN [errors |-> <<"Error disabling rule on destroy">>, warnings |-> <<>>]
    ELSE [errors |-> <<>>, warnings |-> <<"Rule disabled, not deleted">>]

\* ruleResource.Delete: disable the rule; Terraform drops the resource
\* from its state when the response carries no error
Delete ==
    /\ tfstate.present
    /\ \E fail \in {f \in Fails : f.at <= 1} :
         \E s \in {SetRuleState(Ctx(remote, labelDefs, fail), tfstate.ID, FALSE)} :
           Finish("Delete", tfstate.ID, FALSE, s.c, IF s.err # NoErr THEN tfstate ELSE NoState,
                  DeleteDiagnostics(s.err).errors, DeleteDiagnostics(s.err).warnings)

\* ruleResource.ImportState
ImportState ==
    /\ ~tfstate.present
    /\ \E i \in 1..(MaxRules + 1), fail \in {f \in Fails : f.at <= 1} :
         \E r \in {readIntoModel(Ctx(remote, labelDefs, fail), UUIDs[i], ZeroModel)} :
           IF r.err # NoErr THEN Finish("ImportState", UUIDs[i], FALSE, r.c, NoState, <<r.err>>, <<>>)
           ELSE Finish("ImportState", UUIDs[i], FALSE, r.c, r.model, <<>>, <<>>)

Next == Create \/ Read \/ Update \/ Delete \/ ImportState

Spec == Init /\ [][Next]_vars

\* ---- claims on the life cycle ----

Toggle(uuid, enabled) == Req("PUT", "state", <<uuid>>, SetRuleStateBody(enabled))
RemoteState(uuid) == StringField(remote[uuid], "state")
Succeeded(op) == diag.op = op /\ diag.errors = <<>>

\* C1: Delete sends the state toggle with value DISABLED for the rule's
\* identifier and no other request; after a successful Delete the remote
\* rule is DISABLED and GetRule with the same identifier still returns it.
DeleteDisablesAndKeepsRule ==
    diag.op = "Delete" =>
      /\ reqs = <<Toggle(diag.uuid, FALSE)>>
      /\ reqs[1].body = JObj([value |-> S("DISABLED")])
      /\ diag.errors = <<>> =>
           /\ diag.uuid \in DOMAIN remote
           /\ RemoteState(diag.uuid) = <<"DISABLED">>
           /\ GetRule(Ctx(remote, labelDefs, NoFail), diag.uuid).err = NoErr
           /\ GetRule(Ctx(remote, labelDefs, NoFail), diag.uuid).rule.UUID = diag.uuid

DeleteDisablesAndKeepsRuleWitness ==
    /\ Succeeded("Delete") /\ ~tfstate.present
    /\ diag.uuid \in DOMAIN remote /\ RemoteState(diag.uuid) = <<"DISABLED">>
    /\ Len(reqs) = 1

\* C2: Delete yields the warning and no error exactly when the disable
\* request is answered with success; when the request is rejected or the
\* transport fails it yields a fatal error and no warning, and the
\* resource stays in the Terraform state.
DeleteWarnsOnlyOnSuccess ==
    diag.op = "Delete" =>
      IF diag.resps[1] \in {200, 204}
      THEN diag.errors = <<>> /\ diag.warnings = <<"Rule disabled, not deleted">> /\ ~tfstate.present
      ELSE /\ diag.errors = <<"Error disabling rule on destroy">> /\ diag.warnings = <<>>
           /\ tfstate.present /\ tfstate.ID = diag.uuid

DeleteWarnsOnlyOnSuccessWitness ==
    /\ diag.op = "Delete" /\ diag.resps = <<500>>
    /\ diag.errors # <<>> /\ diag.warnings = <<>> /\ tfstate.present

\* C2 as stated: every Delete, failed ones included, yields a warning and no error
DeleteAlwaysWarns ==
    diag.op = "Delete" => diag.warnings # <<>> /\ diag.errors = <<>>

\* C5: the POST of Create carries state DISABLED whatever the plan says;
\* the toggle with the planned value is the second request, sent once,
\* after the POST has been answered with success and before the read-back;
\* after a successful Create the remote rule and the resource state are
\* ENABLED exactly when enabled is true.
CreateDisabledThenToggles ==
    diag.op = "Create" =>
      /\ Len(reqs) >= 1 =>
           /\ reqs[1].m = "POST" /\ reqs[1].kind = "rules"
           /\ reqs[1].body.v["rule"].v["state"] = S("DISABLED")
      /\ Len(reqs) >= 2 =>
           /\ diag.resps[1] \in {200, 201}
           /\ reqs[2] = Toggle(diag.uuid, diag.enabled)
      /\ Len(reqs) >= 3 =>
           /\ diag.resps[2] \in {200, 204}
           /\ reqs[3] = Req("GET", "rule", <<diag.uuid>>, NoBody)
      /\ \A i \in 1..Len(reqs) : reqs[i].kind \in {"state", "rules"} => i <= 2
      /\ diag.errors = <<>> =>
           /\ Len(reqs) >= 4 /\ tfstate.present /\ tfstate.ID = diag.uuid
           /\ tfstate.Enabled = diag.enabled
           /\ tfstate.State = (IF diag.enabled THEN <<"ENABLED">> ELSE <<"DISABLED">>)
           /\ RemoteState(diag.uuid) = tfstate.State

CreateDisabledThenTogglesWitness ==
    /\ Succeeded("Create") /\ diag.enabled
    /\ tfstate.present /\ tfstate.State = <<"ENABLED">>
    /\ reqs[1].body.v["rule"].v["state"] = S("DISABLED")
    /\ Len(reqs) = 6

-----------------------------------------------------------------------------
(* SpecLabels: the resource with the labels attribute (rule_resource.go) and
   the client it was written against, whose GetRule, UpdateRule and
   SetRuleState are those of client.go line for line *)

\* a []json.RawMessage field as json.Marshal writes it: null for the nil
\* slice, an array otherwise
RawSlice(isNil, raws) == IF isNil THEN JNull ELSE JArr(raws)

\* CreateRule of that client: POST /rule with the CreateRuleRequest struct
\* marshalled as it is (name, trigger and components only)
CreateRuleMinimal(c, rule) ==
    IF rule.Trigger = Invalid \/ AnyInvalid(rule.Components)
    THEN [c |-> c, err |-> "marshaling create rule request", uuid |-> <<>>]
    ELSE
      CHOOSE out \in {
         IF d.neterr THEN [c |-> d.c, err |-> "creating rule", uuid |-> <<>>]
         ELSE IF d.status \notin {200, 201} THEN [c |-> d.c, err |-> "create rule returned", uuid |-> <<>>]
         ELSE IF ~Decodes(d.body) \/ d.body.t \notin {"obj", "null"}
         THEN [c |-> d.c, err |-> "decoding create rule response", uuid |-> <<>>]
         ELSE [c |-> d.c, err |-> NoErr, uuid |-> StringField(d.body, "uuid")] :
                      d \in {Do(c, Req("POST", "rules", <<>>,
                                Envelope(JObj([k \in {"name", "trigger", "components"} |->
                                    CASE k = "name" -> JStr(rule.Name)
                                      [] k = "trigger" -> rule.Trigger
                                      [] OTHER -> RawSlice(rule.ComponentsNil, rule.Components)]))))}} : TRUE

\* CreateLabel: POST .../rule-labels; the id of the new label
CreateLabel(c, projectID, name) ==
    CHOOSE out \in {
       IF d.neterr THEN [c |-> d.c, err |-> "creating label", id |-> 0]
       ELSE IF d.status \notin {200, 201} THEN [c |-> d.c, err |-> "create label returned", id |-> 0]
       ELSE IF ~DecodesToStruct(d.body) THEN [c |-> d.c, err |-> "decoding create label response", id |-> 0]
       ELSE [c |-> d.c, err |-> NoErr, id |-> LabelOf(d.body).ID] :
                      d \in {Do(c, Req("POST", "labels", <<projectID>>,
                                       JObj([k \in {"name"} |-> JStr(name)])))}} : TRUE

\* EnsureLabel: look the label up by name, create it when missing, add it to the rule
EnsureLabel(c, projectID, ruleUUID, labelName) ==
    CHOOSE out \in {
       IF l.err # NoErr THEN [c |-> l.c, err |-> "listing labels for ensure"]
       ELSE IF LabelIDOf(l.labels, labelName) # 0
       THEN AddLabelToRule(l.c, projectID, ruleUUID, LabelIDOf(l.labels, labelName))
       ELSE CHOOSE out2 \in {
              IF n.err # NoErr THEN [c |-> n.c, err |-> "creating label"]
              ELSE AddLabelToRule(n.c, projectID, ruleUUID, n.id) :
                      n \in {CreateLabel(l.c, projectID, labelName)}} : TRUE :
                      l \in {ListLabels(c, projectID)}} : TRUE

Range(s) == {s[i] : i \in 1..Len(s)}

\* syncLabels, its loop over the desired labels in the order the map gives them
RECURSIVE syncLabelsFrom(_, _, _, _, _, _, _)
syncLabelsFrom(c, projectID, uuid, existing, order, i, warnings) ==
    IF i > Len(order) THEN [c |-> c, warnings |-> warnings]
    ELSE IF order[i] \in existing
    THEN syncLabelsFrom(c, projectID, uuid, existing, order, i + 1, warnings)
    ELSE CHOOSE out \in {
           syncLabelsFrom(e.c, projectID, uuid, existing, order, i + 1,
                          IF e.err # NoErr THEN Append(warnings, "Error adding label") ELSE warnings) :
                      e \in {EnsureLabel(c, projectID, uuid, order[i])}} : TRUE

\* the orders in which a range over a Go map may give the elements of a set
Orders(set) ==
    {o \in [1..Cardinality(set) -> set] : \A i, j \in DOMAIN o : i # j => o[i] # o[j]}

\* syncLabels: desired and existing are both read from the model's labels
syncLabels(c, uuid, model, order) ==
    IF Len(model.Scope) # 1 \/ ExtractProjectID(model.Scope[1]) = <<>>
    THEN [c |-> c, warnings |-> <<>>]
    ELSE syncLabelsFrom(c, ExtractProjectID(model.Scope[1]), uuid, Range(model.Labels), order, 1, <<>>)
DesiredLabels(model) == {ManagedLabel} \cup Range(model.Labels)

\* labelsAddOnlyModifier.PlanModifyList: config labels, then state labels,
\* then managed-by:terraform, each once; the state's when the config has none
RECURSIVE Dedup(_, _)
Dedup(s, seen) ==
    IF s = <<>> THEN <<>>
    ELSE IF Head(s) \in seen THEN Dedup(Tail(s), seen)
    ELSE <<Head(s)>> \o Dedup(Tail(s), seen \cup {Head(s)})
PlanModifyList(config, state) ==
    IF ~config.set THEN state
    ELSE Dedup(config.list \o state \o <<ManagedLabel>>, {})

\* rule_resource.go stripAPIFields, one of its two loops: the array under
\* key k with every element stripped
RECURSIVE stripAPIFieldsRR(_)
StripUnderRR(m, k) ==
    IF k \in DOMAIN m /\ IsArr(m[k])
    THEN MapPut(m, k, JArr([i \in 1..Len(m[k].v) |-> stripAPIFieldsRR(m[k].v[i])]))
    ELSE m

\* rule_resource.go stripAPIFields: id, parentId and conditionParentId are
\* deleted in the object and under children and conditions; nothing else
stripAPIFieldsRR(j) ==
    IF ~IsObj(j) THEN j
    ELSE JObj(StripUnderRR(StripUnderRR(
                MapDelete(MapDelete(MapDelete(j.v, "id"), "parentId"), "conditionParentId"),
                "children"), "conditions"))

\* rule_resource.go normalizeRawJSON and normalizeRawJSONArray: the value
\* that the canonical text denotes
normalizeRawJSONRR(raw) ==
    IF raw = Invalid THEN [err |-> "invalid JSON", v |-> JNull]
    ELSE [err |-> NoErr, v |-> stripAPIFieldsRR(raw)]
normalizeRawJSONArrayRR(raws) ==
    IF AnyInvalid(raws) THEN [err |-> "invalid JSON", v |-> JNull]
    ELSE [err |-> NoErr, v |-> JSlice([i \in 1..Len(raws) |-> stripAPIFieldsRR(raws[i])])]

\* rule_resource.go readIntoModel once the rule is fetched: the trigger in
\* the representation the model holds, components_json always (this resource
\* has no components blocks, the field of the record stays empty)
ModelOfRR(rule, model) ==
    CHOOSE out \in {
       IF model.Trigger.set /\ t.err # NoErr
       THEN [err |-> "Error parsing trigger from API", model |-> model]
       ELSE IF t.err # NoErr THEN [err |-> "Error normalizing trigger", model |-> model]
       ELSE IF cs.err # NoErr THEN [err |-> "Error normalizing components", model |-> model]
       ELSE [err |-> NoErr,
             model |->
               [present |-> TRUE, ID |-> rule.UUID, Name |-> rule.Name, State |-> rule.State,
                Enabled |-> (rule.State = <<"ENABLED">>),
                Scope |-> rule.RuleScopeARIs, Labels |-> rule.Labels,
                ProjectID |-> model.ProjectID,
                Trigger |-> IF model.Trigger.set THEN TriggerBlock(t.type, t.args) ELSE NoTrigger,
                TriggerJSON |-> IF model.Trigger.set THEN model.TriggerJSON ELSE JSONAttr(t.v),
                Components |-> NoComponents, ComponentsJSON |-> JSONAttr(cs.v)]] :
          t \in {IF model.Trigger.set THEN ParseTrigger(rule.Trigger)
                 ELSE normalizeRawJSONRR(rule.Trigger)},
          cs \in {normalizeRawJSONArrayRR(rule.Components)}} : TRUE

\* rule_resource.go readIntoModel
readIntoModelRR(c, uuid, model) ==
    CHOOSE out \in {
       IF g.err # NoErr THEN [c |-> g.c, err |-> "Error reading rule", model |-> model]
       ELSE CHOOSE out2 \in {[c |-> g.c, err |-> mo.err, model |-> mo.model] :
                               mo \in {ModelOfRR(g.rule, model)}} : TRUE :
                      g \in {GetRule(c, uuid)}} : TRUE

\* rules that exist before the resource manages them, as the API stores them
ExistingRule(projectID, labels) ==
    CHOOSE out \in {
        JObj(MapPut(base.v, "labels", JArr([i \in 1..Len(labels) |-> JStr(labels[i])]))) :
           base \in {ServerStore(UUIDs[1], CreateRulePayload(
                        [Name |-> <<"A">>, ProjectID |-> projectID, Trigger |-> RawTrigger,
                         Components |-> <<RawLog>>]))}} : TRUE
TeamLabel == <<"team-a">>
OpsLabel == <<"ops">>

\* configurations of the resource with labels: null, or a list
NoLabels == [set |-> FALSE, list |-> <<>>]
ConfigLabels == {NoLabels, [set |-> TRUE, list |-> <<TeamLabel>>],
                 [set |-> TRUE, list |-> <<OpsLabel, TeamLabel>>]}
LabelConfigs ==
    { [cfg |-> [PlanOf(ProjectID, NoTrigger, JSONAttr(RawTrigger), NoComponents, JSONAttr(JArr(<<RawLog>>)))
                  EXCEPT !.Name = <<"A">>, !.Enabled = e],
       labels |-> l] : e \in {TRUE}, l \in ConfigLabels }
    \cup
    \* a trigger block that cannot be built, and components_json that is no array
    { [cfg |-> [PlanOf(ProjectID, TriggerBlock(<<"status_transition">>, TriggerArgs(<<"To Do">>, <<>>)),
                       NoJSON, NoComponents, JSONAttr(JArr(<<RawLog>>)))
                  EXCEPT !.Name = <<"A">>, !.Enabled = TRUE],
       labels |-> NoLabels],
      [cfg |-> [PlanOf(ProjectID, NoTrigger, JSONAttr(RawTrigger), NoComponents, JSONAttr(RawLog))
                  EXCEPT !.Name = <<"A">>, !.Enabled = TRUE],
       labels |-> NoLabels] }

\* the request that fails, if any: Update sends at most 8
LabelFails == {NoFail} \cup [at : 1..8, kind : {"status"}] \cup [at : {2, 7}, kind : {"lost"}]

\* a first configuration of a rule with no components yet:
\* components_json = "[]"
EmptyListConfigs ==
    { [cfg |-> [PlanOf(ProjectID, NoTrigger, JSONAttr(RawTrigger), NoComponents, JSONAttr(JArr(<<>>)))
                  EXCEPT !.Name = <<"A">>, !.Enabled = TRUE],
       labels |-> NoLabels] }

InitLabels ==
    /\ remote \in {<<>>} \cup
                  {[u \in {UUIDs[1]} |-> ExistingRule(p, l)] :
                      p \in {ProjectID, <<>>}, l \in {<<>>, <<TeamLabel>>}}
    /\ labelDefs \in {<<>>, <<TeamLabel, ManagedLabel>>}
    /\ tfstate = NoState /\ reqs = <<>>
    /\ diag = [op |-> "none"] /\ codec = [op |-> "none"]

\* Create and Update of this resource are taken one request at a time, so
\* that the other hand (JiraUI) can act between two requests.  While an
\* operation waits for its next request, codec holds its plan, the request
\* that fails, the requests it sent and the answers it received.
Idle == codec.op # "pending"
Resuming(op) == codec.op = "pending" /\ codec.kind = op
Replay == IF codec.op = "pending" THEN codec.replay ELSE <<>>

\* what a step of an operation of this resource leaves.  A step that is
\* blocked at the next request leaves the operation pending and the resource
\* state untouched; the last step leaves the resource state Terraform keeps
\* and the diagnostics of the response.
FinishLabels(op, uuid, plan, c, state, errors, warnings) ==
    /\ Len(c.reqs) >= Len(c.replay)
    /\ \A i \in 1..Len(c.replay) : c.reqs[i] = codec.sent[i]
    /\ remote' = c.rem /\ labelDefs' = c.labs /\ reqs' = c.reqs
    /\ IF c.blocked
       THEN /\ tfstate' = tfstate
            /\ diag' = [op |-> "pending"]
            /\ codec' = [op |-> "pending", kind |-> op, plan |-> plan, fail |-> c.fail,
                         replay |-> c.replay \o c.live, sent |-> c.reqs]
       ELSE /\ tfstate' = state
            /\ diag' = [op |-> op, uuid |-> uuid, planned |-> plan.Labels, resps |-> c.resps,
                        errors |-> errors, warnings |-> warnings]
            /\ codec' = [op |-> "none"]

\* Create and Update after the state toggle: read back, sync the labels, read again
ReadBackAndSync(op, c, uuid, plan, prior) ==
    \E r1 \in {readIntoModelRR(c, uuid, plan)} :
      IF r1.err # NoErr THEN FinishLabels(op, uuid, plan, r1.c, prior, <<r1.err>>, <<>>)
      ELSE \E order \in Orders(DesiredLabels(r1.model)) :
             \E l \in {syncLabels(r1.c, uuid, r1.model, order)} :
               \E r2 \in {readIntoModelRR(l.c, uuid, r1.model)} :
                 IF r2.err # NoErr
                 THEN FinishLabels(op, uuid, plan, r2.c, prior, <<r2.err>>, l.warnings)
                 ELSE FinishLabels(op, uuid, plan, r2.c, r2.model, <<>>, l.warnings)

\* the plans of an operation that starts, as PlanModifyList completed them,
\* or the plan of the operation that goes on
LabelPlans(op, stateLabels) ==
    IF Resuming(op) THEN {codec.plan}
    ELSE IF Idle
    THEN {[in.cfg EXCEPT !.Labels = PlanModifyList(in.labels, stateLabels)] :
             in \in LabelConfigs \cup (IF op = "Create" THEN EmptyListConfigs ELSE {})}
    ELSE {}
LabelOpFails == IF codec.op = "pending" THEN {codec.fail} ELSE LabelFails

\* rule_resource.go Create
CreateWithLabels ==
    /\ ~tfstate.present
    /\ Resuming("Create") \/ Cardinality(DOMAIN remote) < MaxRules
    /\ \E plan \in LabelPlans("Create", <<>>), fail \in LabelOpFails :
         \E c \in {CtxStep(remote, labelDefs, fail, Replay)} :
           IF resolveTriggerJSON(plan).err # NoErr
           THEN FinishLabels("Create", <<>>, plan, c, NoState, <<resolveTriggerJSON(plan).err>>, <<>>)
           ELSE IF parseComponentsJSON(plan.ComponentsJSON).err # NoErr
           THEN FinishLabels("Create", <<>>, plan, c, NoState, <<"Invalid components_json">>, <<>>)
           ELSE
           \E cr \in {CreateRuleMinimal(c,
                                        [Name |-> plan.Name, Trigger |-> resolveTriggerJSON(plan).raw,
                                         Components |-> parseComponentsJSON(plan.ComponentsJSON).raws,
                                         ComponentsNil |-> parseComponentsJSON(plan.ComponentsJSON).isNil])} :
             IF cr.err # NoErr
             THEN FinishLabels("Create", cr.uuid, plan, cr.c, NoState, <<"Error creating rule">>, <<>>)
             ELSE \E s \in {SetRuleState(cr.c, cr.uuid, plan.Enabled)} :
               IF s.err # NoErr
               THEN FinishLabels("Create", cr.uuid, plan, s.c, NoState,
                                 <<"Error setting rule state after creation">>, <<>>)
               ELSE ReadBackAndSync("Create", s.c, cr.uuid, plan, NoState)

\* rule_resource.go Update
UpdateWithLabels ==
    /\ tfstate.present
    /\ \E plan \in LabelPlans("Update", tfstate.Labels), fail \in LabelOpFails :
         \E c \in {CtxStep(remote, labelDefs, fail, Replay)} :
           IF resolveTriggerJSON(plan).err # NoErr
           THEN FinishLabels("Update", tfstate.ID, plan, c, tfstate, <<resolveTriggerJSON(plan).err>>, <<>>)
           ELSE IF parseComponentsJSON(plan.ComponentsJSON).err # NoErr
           THEN FinishLabels("Update", tfstate.ID, plan, c, tfstate, <<"Invalid components_json">>, <<>>)
           ELSE
           \E u \in {UpdateRule(c, tfstate.ID,
                                [Name |-> plan.Name, Trigger |-> resolveTriggerJSON(plan).raw,
                                 Components |-> parseComponentsJSON(plan.ComponentsJSON).raws])} :
             IF u.panic
             THEN FinishLabels("Update", tfstate.ID, plan, u.c, tfstate, <<"panic">>, <<>>)
             ELSE IF u.err # NoErr
             THEN FinishLabels("Update", tfstate.ID, plan, u.c, tfstate, <<"Error updating rule">>, <<>>)
             ELSE \E s \in {SetRuleState(u.c, tfstate.ID, plan.Enabled)} :
               IF s.err # NoErr
               THEN FinishLabels("Update", tfstate.ID, plan, s.c, tfstate,
                                 <<"Error setting rule state">>, <<>>)
               ELSE ReadBackAndSync("Update", s.c, tfstate.ID, plan, tfstate)

\* another hand labels the rule in the Jira UI, also while an operation of
\* the provider waits for an answer
JiraUI ==
    /\ \E u \in DOMAIN remote :
         /\ ~SeqContains(remote[u].v["labels"].v, JStr(TeamLabel))
         /\ remote' = [remote EXCEPT ![u] = JObj(MapPut(remote[u].v, "labels",
                          JArr(Append(remote[u].v["labels"].v, JStr(TeamLabel)))))]
    /\ labelDefs' = IF SeqContains(labelDefs, TeamLabel) THEN labelDefs ELSE Append(labelDefs, TeamLabel)
    /\ diag' = [op |-> "JiraUI"] /\ reqs' = <<>>
    /\ UNCHANGED <<tfstate, codec>>

\* rule_resource.go Read; Terraform runs one operation on the resource at a
\* time
ReadWithLabels ==
    /\ Idle /\ tfstate.present
    /\ \E fail \in {f \in Fails : f.at <= 1} :
         \E r \in {readIntoModelRR(Ctx(remote, labelDefs, fail), tfstate.ID, tfstate)} :
           IF r.err # NoErr THEN Finish("Read", tfstate.ID, tfstate.Enabled, r.c, tfstate, <<r.err>>, <<>>)
           ELSE Finish("Read", tfstate.ID, tfstate.Enabled, r.c, r.model, <<>>, <<>>)

\* rule_resource.go ImportState, on the zero model
ImportStateWithLabels ==
    /\ Idle /\ ~tfstate.present
    /\ \E i \in 1..(MaxRules + 1), fail \in {f \in Fails : f.at <= 1} :
         \E r \in {readIntoModelRR(Ctx(remote, labelDefs, fail), UUIDs[i], ZeroModel)} :
           IF r.err # NoErr THEN Finish("ImportState", UUIDs[i], FALSE, r.c, NoState, <<r.err>>, <<>>)
           ELSE Finish("ImportState", UUIDs[i], FALSE, r.c, r.model, <<>>, <<>>)

\* rule_resource.go Delete is the Delete of the newer resource, line for line
DeleteIdle == Idle /\ Delete

NextLabels ==
    CreateWithLabels \/ UpdateWithLabels \/ ReadWithLabels \/ DeleteIdle \/ ImportStateWithLabels \/ JiraUI

SpecLabels == InitLabels /\ [][NextLabels]_vars

\* ---- claims on the labels ----

RemoteLabels(rem, u) == StringsOf(rem[u].v, "labels")

\* every rule keeps its labels across the step
LabelsKept ==
    \A u \in DOMAIN remote :
       u \in DOMAIN remote' /\ Range(RemoteLabels(remote, u)) \subseteq Range(RemoteLabels(remote', u))

\* the step sends the PUT of an update, whose GET was answered in an earlier step
PutStep ==
    /\ codec.op = "pending" /\ Len(codec.replay) >= 1
    /\ Len(reqs') = Len(codec.replay) + 1
    /\ reqs'[Len(reqs')].kind = "rule" /\ reqs'[Len(reqs')].m = "PUT"
\* the labels of the rule in the answer to that GET
FetchedLabels == codec.replay[Len(codec.replay)].body.v["rule"].v["labels"]

\* the rule PUT of the step carries the labels as the GET fetched them
PutCarriesFetchedLabels ==
    PutStep => /\ Has(reqs'[Len(reqs')].body.v["rule"], "labels")
               /\ reqs'[Len(reqs')].body.v["rule"].v["labels"] = FetchedLabels

\* every rule keeps its labels across the step; across the PUT of an update
\* it keeps the labels the GET fetched
LabelsKeptSinceFetch ==
    \A u \in DOMAIN remote :
       /\ u \in DOMAIN remote'
       /\ IF PutStep
          THEN {FetchedLabels.v[i].v : i \in 1..Len(FetchedLabels.v)}
                  \subseteq Range(RemoteLabels(remote', u))
          ELSE Range(RemoteLabels(remote, u)) \subseteq Range(RemoteLabels(remote', u))

\* the label requests of the step list labels, create one or add one to a rule
OnlyAddRequests ==
    \A i \in 1..Len(reqs') :
       /\ reqs'[i].m \in {"GET", "POST", "PUT"}
       /\ reqs'[i].kind = "labels" => reqs'[i].m \in {"GET", "POST"}
       /\ reqs'[i].kind = "ruleLabel" => reqs'[i].m = "PUT"

\* C6: across any sequence of Create, Update, Read, Delete and ImportState,
\* with labels added by other hands in between, no step removes a label
\* from a remote rule: the update PUT carries the labels as fetched, and
\* label synchronisation only lists, creates and adds labels.
ProviderNeverRemovesLabels ==
    [][LabelsKept /\ PutCarriesFetchedLabels /\ OnlyAddRequests]_vars

\* C6, as the code has it: the update PUT carries the labels exactly as the
\* GET fetched them and label synchronisation only lists, creates and adds
\* labels, so no step removes a label that was on the rule when the GET
\* fetched it; a label another hand adds between the GET and the PUT is not
\* in the PUT.
ProviderKeepsFetchedLabels ==
    [][LabelsKeptSinceFetch /\ PutCarriesFetchedLabels /\ OnlyAddRequests]_vars

\* an update whose PUT was accepted after the rule was labelled in the Jira
\* UI between the GET and the PUT
ProviderKeepsFetchedLabelsWitness ==
    /\ codec.op = "pending" /\ codec.kind = "Update"
    /\ Len(codec.sent) = 2 /\ codec.sent[2].kind = "rule" /\ codec.sent[2].m = "PUT"
    /\ codec.replay[2].status = 200
    /\ codec.replay[1].body.v["rule"].v["labels"] = JArr(<<>>)
    /\ labelDefs = <<TeamLabel>>
    /\ RemoteLabels(remote, UUIDs[1]) = <<>>

\* C7: after a successful Create or Update on a single-project rule, with
\* every request answered with success, every label of the union of the
\* configuration's labels, the labels of the prior state and
\* managed-by:terraform is on the remote rule.
PlannedLabelsAreOnRemoteRule ==
    (/\ diag.op \in {"Create", "Update"} /\ diag.errors = <<>> /\ diag.warnings = <<>>
     /\ tfstate.present /\ Len(tfstate.Scope) = 1 /\ ExtractProjectID(tfstate.Scope[1]) # <<>>) =>
       Range(diag.planned) \cup {ManagedLabel} \subseteq Range(RemoteLabels(remote, diag.uuid))

\* ---- claims on conditions ----

\* a configuration of one condition, built and parsed back
ParsedOneCondition ==
    /\ codec.op = "parsed" /\ Len(codec.components) = 1
    /\ codec.components[1].Type = <<"condition">>

\* no then/else action carries an arg its builder does not read
InnerArgsAreRead(comp) ==
    \A a \in Range(comp.Then) \cup Range(comp.Else) :
        "debug" \in DOMAIN a.Args => a.Type = <<"add_release_related_work">>

\* C11: parsing the container BuildConditionJSON built for a condition with
\* non-empty first and operator returns the same comparison args, the same
\* then actions in order and the same else actions in order.
ConditionRoundTrips ==
    (ParsedOneCondition /\ InnerArgsAreRead(codec.components[1])) =>
      /\ codec.parsed.err = NoErr
      /\ Len(codec.parsed.components) = 1
      /\ codec.parsed.components[1].Args = codec.components[1].Args
      /\ codec.parsed.components[1].Then = codec.components[1].Then
      /\ codec.parsed.components[1].Else = codec.components[1].Else

\* a configuration of conditions only, built: entry i is the container of
\* component i
BuiltConditions ==
    /\ BuiltOK /\ codec.components # <<>>
    /\ \A i \in 1..Len(codec.components) : codec.components[i].Type = <<"condition">>

\* the entries BuildComponentsJSON hands to BuildConditionJSON for a
\* then or else list
InnerRaws(actions) ==
    buildInnerActionsFrom(actions, 1, <<>>, codec.client.CloudID, codec.client.WebhookUser,
                          codec.client.WebhookToken, codec.client.FieldAliases, codec.sorted).raws

\* C12: the container BuildConditionJSON builds has exactly 2 top-level
\* children, first an IF block with exactly 1 comparator condition and the
\* then actions as its children in order, second an ELSE block with 0
\* conditions and the else actions as its children in order, also when a
\* list is empty.
ConditionContainerHasIfAndElse ==
    BuiltConditions =>
      /\ Len(codec.built.raws) = Len(codec.components)
      /\ \A i \in 1..Len(codec.components) :
           \A kids \in {RawsField(codec.built.raws[i], "children")} :
             /\ StringField(codec.built.raws[i], "type") = <<"jira.condition.container.block">>
             /\ Len(kids) = 2
             /\ \A b \in 1..2 :
                  /\ StringField(kids[b], "type") = <<"jira.condition.if.block">>
                  /\ StringField(kids[b], "component") = <<"CONDITION_BLOCK">>
                  /\ IsArr(kids[b].v["children"]) /\ IsArr(kids[b].v["conditions"])
             /\ Len(RawsField(kids[1], "conditions")) = 1
             /\ StringField(RawsField(kids[1], "conditions")[1], "type") = <<"jira.comparator.condition">>
             /\ RawsField(kids[1], "children") = InnerRaws(codec.components[i].Then)
             /\ RawsField(kids[2], "conditions") = <<>>
             /\ RawsField(kids[2], "children") = InnerRaws(codec.components[i].Else)

ConditionContainerHasIfAndElseWitness ==
    /\ BuiltConditions /\ Len(codec.components) = 2
    /\ codec.components[1].Else = <<>> /\ Len(codec.components[1].Then) = 2
    /\ codec.components[2].Then = <<>> /\ codec.components[2].Else # <<>>
    /\ Len(RawsField(codec.built.raws[1], "children")) = 2
    /\ RawsField(RawsField(codec.built.raws[2], "children")[1], "children") = <<>>

\* ---- claims on the action builders and parsers ----

\* the args a kind's builder requires
RequiredArgs(userType) ==
    IF userType = <<"add_release_related_work">>
    THEN {"version_field", "category", "title", "url"} ELSE {"message"}

\* one action of the catalog holding its required args and no other, built
\* by a client without field aliases: the entry is the builder's output
BuiltOneAction ==
    /\ BuiltOK /\ Len(codec.components) = 1
    /\ RegistryApiType(codec.components[1].Type) # <<>>
    /\ DOMAIN codec.components[1].Args = RequiredArgs(codec.components[1].Type)
    /\ DOMAIN codec.client.FieldAliases = {}

\* C13: for each action kind and every argument map that satisfies the
\* kind's required-field constraints, parsing the JSON the kind's builder
\* produced returns an argument map equal to the one that was built.
ActionParseOfBuildIsArgs ==
    BuiltOneAction =>
      \A p \in {RegistryParse(codec.components[1].Type, codec.built.raws[1])} :
         p.err = NoErr /\ p.args = codec.components[1].Args

-----------------------------------------------------------------------------
(* SpecTrigger: BuildTriggerJSON, then ParseTrigger of what it built *)

\* argument maps of a trigger block: args is a map of strings with any keys
\* (rule_resource.go schema, "args"); here the two args of status_transition
\* and one key the kind does not know, each absent, empty or a status name
StatusNames == {<<"To Do">>, <<"In ", "\"", "QA">>}
TriggerArgKeys == {"from_status", "to_status"}
TriggerArgMaps ==
    UNION {[ks -> StatusNames \cup {<<>>}] : ks \in SUBSET (TriggerArgKeys \cup {"note"})}
TriggerTypes == {<<"status_transition">>, <<"nonexistent_trigger">>}
CloudContexts == {CloudID, <<"cloud-456">>}
ProjectIDs == {ProjectID, <<>>}

InitTrigger ==
    /\ remote = <<>> /\ labelDefs = <<>> /\ tfstate = NoState /\ reqs = <<>>
    /\ diag = [op |-> "none"]
    /\ codec \in [op : {"trigger"}, type : TriggerTypes, args : TriggerArgMaps,
                  cloudID : CloudContexts, projectID : ProjectIDs]

\* resolveTriggerJSON's call of BuildTriggerJSON
BuildTrigger ==
    /\ codec.op = "trigger"
    /\ codec' = [op |-> "trigger built", type |-> codec.type, args |-> codec.args,
                 cloudID |-> codec.cloudID, projectID |-> codec.projectID,
                 built |-> BuildTriggerJSON(codec.type, codec.args, codec.cloudID, codec.projectID)]
    /\ UNCHANGED <<remote, labelDefs, tfstate, reqs, diag>>

\* readIntoModel's call of ParseTrigger, on the trigger as built or as the
\* API returns it once stored
ParseBuiltTrigger ==
    /\ codec.op = "trigger built" /\ codec.built.err = NoErr
    /\ \E stored \in BOOLEAN :
         codec' = [op |-> "trigger parsed", type |-> codec.type, args |-> codec.args,
                   cloudID |-> codec.cloudID, projectID |-> codec.projectID,
                   built |-> codec.built, stored |-> stored,
                   parsed |-> ParseTrigger(IF stored THEN AssignIDs(codec.built.raw, JNull, "none")
                                           ELSE codec.built.raw)]
    /\ UNCHANGED <<remote, labelDefs, tfstate, reqs, diag>>

NextTrigger == BuildTrigger \/ ParseBuiltTrigger

SpecTrigger == InitTrigger /\ [][NextTrigger]_vars

\* ---- claims on the trigger codec ----

\* the argument map a with the keys outside ks left out
RestrictArgs(a, ks) == [k \in (DOMAIN a) \cap ks |-> a[k]]

\* C14 as stated: for the status_transition trigger and every argument map
\* with non-empty from_status and to_status, any cloud context and project
\* id, ParseTrigger of what BuildTriggerJSON built returns the type and the
\* argument map that were built.
TriggerParseOfBuildIsTypeAndArgs ==
    /\ (codec.op = "trigger built" /\ codec.type = <<"status_transition">>
        /\ ArgOf(codec.args, "from_status") # <<>> /\ ArgOf(codec.args, "to_status") # <<>>)
          => codec.built.err = NoErr
    /\ codec.op = "trigger parsed" =>
          /\ codec.parsed.err = NoErr
          /\ codec.parsed.type = codec.type
          /\ codec.parsed.args = codec.args

\* C14: for the status_transition trigger and every argument map with
\* non-empty from_status and to_status, any cloud context and project id,
\* BuildTriggerJSON succeeds and ParseTrigger of what it built returns the
\* type and the from_status and to_status of the map that was built; an
\* argument under any other key does not come back, so the result is the
\* map that was built exactly when the map holds those two keys only.
TriggerParseOfBuildIsTypeAndStatusArgs ==
    /\ (codec.op = "trigger built" /\ codec.type = <<"status_transition">>
        /\ ArgOf(codec.args, "from_status") # <<>> /\ ArgOf(codec.args, "to_status") # <<>>)
          => codec.built.err = NoErr
    /\ codec.op = "trigger parsed" =>
          /\ codec.parsed.err = NoErr
          /\ codec.parsed.type = codec.type
          /\ codec.parsed.args = RestrictArgs(codec.args, TriggerArgKeys)
          /\ (codec.parsed.args = codec.args) <=> (DOMAIN codec.args = TriggerArgKeys)

TriggerParseOfBuildIsTypeAndStatusArgsWitness ==
    /\ codec.op = "trigger parsed" /\ codec.stored
    /\ codec.projectID = <<>> /\ codec.cloudID # CloudID
    /\ codec.args = [k \in {"from_status", "to_status", "note"} |->
                        CASE k = "from_status" -> <<"In ", "\"", "QA">>
                          [] k = "to_status" -> <<"To Do">>
                          [] OTHER -> <<"To Do">>]
    /\ codec.parsed.args = [k \in {"from_status", "to_status"} |->
                        IF k = "from_status" THEN <<"In ", "\"", "QA">> ELSE <<"To Do">>]

\* ---- claims on parse and build errors ----

\* the error text holds the tag
Names(msg, tag) == \E k \in 0..(Len(msg) - Len(tag)) : SubSeq(msg, k + 1, k + Len(tag)) = tag

\* the API type tags of the catalog: the actions, the condition container
\* (top level only), the triggers
ActionTags == {<<"codebarrel.action.log">>, <<"jira.issue.comment">>, <<"jira.issue.outgoing.webhook">>}
TopLevelTags == ActionTags \cup {<<"jira.condition.container.block">>}
TriggerTags == {<<"jira.issue.event.trigger:transitioned">>}

\* an entry whose type tag decodes and is not among the tags
UnknownType(raw, tags) == StringFieldOK(raw, "type") /\ StringField(raw, "type") \notin tags

\* the then (b = 1) or else (b = 2) entries of a container, <<>> when the
\* container has no such block
BlockEntries(raw, b) ==
    IF StringFieldOK(raw, "type") /\ StringField(raw, "type") = <<"jira.condition.container.block">>
       /\ RawsFieldOK(raw, "children") /\ Len(RawsField(raw, "children")) >= b
       /\ RawsFieldOK(RawsField(raw, "children")[b], "children")
    THEN RawsField(RawsField(raw, "children")[b], "children") ELSE <<>>

RemoteParsed == codec.op = "remote parsed"

\* the entries before position i parse
ParsesBefore(raws, i) ==
    ParseComponents(SubSeq(raws, 1, i - 1), codec.client.ReverseAliases, codec.sorted).err = NoErr
InnerParsesBefore(raws, j) ==
    parseInnerActions(SubSeq(raws, 1, j - 1), codec.client.ReverseAliases, codec.sorted).err = NoErr

\* C15: ParseComponents and ParseTrigger fail with an error that names the
\* offending type tag whenever an entry's API type is not in the catalog,
\* and BuildComponentsJSON and ParseComponents return an empty list on any
\* build or parse error, whatever the position of the failing entry.
UnknownTypeFailsAndNoPartialList ==
    /\ Built /\ codec.built.err # NoErr => codec.built.raws = <<>>
    /\ codec.op = "parsed" /\ codec.parsed.err # NoErr => codec.parsed.components = <<>>
    /\ RemoteParsed =>
         /\ codec.parsed.err # NoErr => codec.parsed.components = <<>>
         /\ UnknownType(codec.trigger, TriggerTags) =>
              /\ codec.parsedTrigger.err # NoErr
              /\ Names(codec.parsedTrigger.msg, StringField(codec.trigger, "type"))
         /\ \A i \in 1..Len(codec.raws) :
              /\ UnknownType(codec.raws[i], TopLevelTags) =>
                   /\ codec.parsed.err # NoErr
                   /\ ParsesBefore(codec.raws, i) =>
                        Names(codec.parsed.msg, StringField(codec.raws[i], "type"))
              /\ \A b \in 1..2 : \A kids \in {BlockEntries(codec.raws[i], b)} :
                   \A j \in 1..Len(kids) :
                      UnknownType(kids[j], ActionTags) =>
                        /\ codec.parsed.err # NoErr
                        /\ (/\ ParsesBefore(codec.raws, i) /\ InnerParsesBefore(kids, j)
                            /\ b = 2 => InnerParsesBefore(BlockEntries(codec.raws[i], 1),
                                                         Len(BlockEntries(codec.raws[i], 1)) + 1))
                             => Names(codec.parsed.msg, StringField(kids[j], "type"))

UnknownTypeFailsAndNoPartialListWitness ==
    /\ RemoteParsed /\ Len(codec.raws) = 2
    /\ codec.raws[1] = ActLog
    /\ BlockEntries(codec.raws[2], 2) = <<ActComment, ActAssign>>
    /\ codec.parsed.err # NoErr /\ codec.parsed.components = <<>>
    /\ Names(codec.parsed.msg, <<"jira.issue.assign">>)
    /\ codec.trigger = TrigManual
    /\ Names(codec.parsedTrigger.msg, StringField(TrigManual, "type"))

-----------------------------------------------------------------------------
(* SpecAlias: resolveAliases and unresolveAliases of its result, with the
   maps held on a heap *)

\* arg values: bare aliases and field ids, smart values, text without either
AliasArgValues ==
    { <<"rel">>, <<"customfield_10020">>, <<"{{issue.", "rel", "}}">>,
      <<"{{issue.", "rel", "ease", ".", "name", "}}">>,
      <<"{{issue.", "fix", "ed", "}}">>, <<"{{issue.", "status", "}}">>,
      <<"see ", "{{triggerIssue.", "env", "}}", " and ", "{{issue.", "customfield_10020", "}}">>,
      <<"hi">> }
AliasArgMaps == UNION {[ks -> AliasArgValues] : ks \in SUBSET {"version_field", "message"}}

\* alias tables with distinct aliases and distinct field ids; nil and the
\* empty table are both the empty function
NonConflictingTables ==
    { <<>>,
      [k \in {<<"rel">>} |-> <<"customfield_10020">>],
      [k \in {<<"rel">>, <<"env">>} |->
          IF k = <<"rel">> THEN <<"customfield_10020">> ELSE <<"customfield_10021">>],
      [k \in {<<"rel">>, <<"rel", "ease">>} |->
          IF k = <<"rel">> THEN <<"customfield_10020">> ELSE <<"customfield_10022">>],
      [k \in {<<"fix">>, <<"fix", "ed">>} |->
          IF k = <<"fix">> THEN <<"customfield_10020">> ELSE <<"fix", "Versions">>],
      [k \in {<<"sprint">>, <<"status">>} |->
          IF k = <<"sprint">> THEN <<"customfield_10020">> ELSE <<"sprint">>] }

InitAlias ==
    /\ remote = <<>> /\ labelDefs = <<>> /\ tfstate = NoState /\ reqs = <<>>
    /\ diag = [op |-> "none"]
    /\ codec \in {[op |-> "alias input", heap |-> <<args>>, args |-> args,
                   aliases |-> al, reverse |-> rv, last |-> 1] :
                     args \in AliasArgMaps, al \in NonConflictingTables,
                     rv \in UNION {ReverseTables(x) : x \in NonConflictingTables}}
    /\ codec.reverse \in ReverseTables(codec.aliases)

\* BuildComponentsJSON's call of resolveAliases on the args at position 1
ResolveArgs ==
    /\ codec.op = "alias input"
    /\ \E sorted \in sortedKeys(codec.aliases) :
         \E r \in {resolveAliasesRef(codec.heap, 1, codec.aliases, sorted)} :
            codec' = [codec EXCEPT !.op = "resolved", !.heap = r.heap, !.last = r.ref]
    /\ UNCHANGED <<remote, labelDefs, tfstate, reqs, diag>>

\* ParseComponents' call of unresolveAliases, on the map ResolveArgs returned
UnresolveArgs ==
    /\ codec.op = "resolved"
    /\ \E sorted \in sortedKeys(codec.reverse) :
         \E r \in {unresolveAliasesRef(codec.heap, codec.last, codec.reverse, sorted)} :
            codec' = [codec EXCEPT !.op = "unresolved", !.heap = r.heap, !.last = r.ref]
    /\ UNCHANGED <<remote, labelDefs, tfstate, reqs, diag>>

NextAlias == ResolveArgs \/ UnresolveArgs

SpecAlias == InitAlias /\ [][NextAlias]_vars

\* ---- claims on the field aliases ----

\* C16: resolveAliases and unresolveAliases never mutate their input map and
\* always return a new map, also when the alias table is empty: the result
\* is content-equal to the input but is another map (another position of the
\* heap), so a write to the result could never reach the input.
AliasResultIsFreshMap ==
    /\ codec.heap[1] = codec.args
    /\ codec.op = "resolved" => codec.last # 1
    /\ (codec.op = "resolved" /\ DOMAIN codec.aliases = {}) => codec.heap[codec.last] = codec.args

\* C17: for any non-conflicting alias table and any argument map,
\* unresolveAliases of resolveAliases of the map, with the reverse table, is
\* the map.
UnresolveOfResolveIsArgs ==
    codec.op = "unresolved" => codec.heap[codec.last] = codec.args

\* ---------------------------------------------------------------------------
\* JSON text: encoding/json's Marshal and Unmarshal
\* ---------------------------------------------------------------------------

\* the object keys of the rule documents in the byte order json.Marshal writes them
KeyOrder ==
    <<"addCommentOnce", "assignType", "children", "comment", "commentVisibility",
      "component", "conditionMatchType", "conditionParentId", "conditions",
      "connectionId", "contentType", "continueOnErrorEnabled", "customBody",
      "eventFilters", "eventKey", "first", "fromStatus", "headerSecure", "headers",
      "id", "issueEvent", "method", "name", "operator", "parentId", "publicComment",
      "responseEnabled", "schemaVersion", "second", "sendIssue", "sendNotifications",
      "toStatus", "type", "url", "value">>

RECURSIVE KeysFrom(_, _)
\* the keys of dom in KeyOrder, from position i on
KeysFrom(dom, i) ==
    IF i > Len(KeyOrder) THEN <<>>
    ELSE IF KeyOrder[i] \in dom THEN <<KeyOrder[i]>> \o KeysFrom(dom, i + 1)
    ELSE KeysFrom(dom, i + 1)

Reverse(s) == [i \in 1..Len(s) |-> s[Len(s) + 1 - i]]

InvalidText == [t |-> "invalid"]

RECURSIVE TextOf(_, _, _)
\* a JSON text of the value j: an object is the sequence of its members as
\* written (sorted keys, or the reverse when rev), ws tells whether the text
\* carries insignificant whitespace
TextOf(j, rev, ws) ==
    IF j = Invalid THEN InvalidText
    ELSE IF IsObj(j)
    THEN [t |-> "obj", ws |-> ws,
          pairs |-> CHOOSE out \in {
             [i \in 1..Len(ks) |-> [k |-> ks[i], v |-> TextOf(j.v[ks[i]], rev, ws)]] :
                ks \in {IF rev THEN Reverse(KeysFrom(DOMAIN j.v, 1))
                        ELSE KeysFrom(DOMAIN j.v, 1)}} : TRUE]
    ELSE IF IsArr(j)
    THEN [t |-> "arr", ws |-> ws, elems |-> [i \in 1..Len(j.v) |-> TextOf(j.v[i], rev, ws)]]
    ELSE [t |-> "lit", v |-> j]

\* json.Marshal: map keys sorted, no whitespace
Marshal(j) == TextOf(j, FALSE, FALSE)

RECURSIVE Unmarshal(_)
\* json.Unmarshal into interface{}: whitespace and member order are not kept,
\* the last of two members with one key wins
Unmarshal(text) ==
    IF text.t = "obj"
    THEN JObj([k \in {text.pairs[i].k : i \in 1..Len(text.pairs)} |->
               Unmarshal(text.pairs[CHOOSE i \in 1..Len(text.pairs) :
                                       /\ text.pairs[i].k = k
                                       /\ \A n \in (i + 1)..Len(text.pairs) : text.pairs[n].k # k].v)])
    ELSE IF text.t = "arr"
    THEN JArr([i \in 1..Len(text.elems) |-> Unmarshal(text.elems[i])])
    ELSE IF text.t = "lit" THEN text.v
    ELSE Invalid

\* normalizeRawJSON on a text: unmarshal, strip, marshal
normalizeRawJSONText(text) ==
    IF normalizeRawJSON(Unmarshal(text)).err # NoErr
    THEN [err |-> "invalid JSON", out |-> InvalidText]
    ELSE [err |-> NoErr, out |-> Marshal(normalizeRawJSON(Unmarshal(text)).v)]

\* parseComponentsJSON then normalizeRawJSONArray on the text of components_json
normalizeComponentsText(text) ==
    IF parseComponentsJSON(JSONAttr(Unmarshal(text))).err # NoErr
    THEN [err |-> "Invalid components_json", out |-> InvalidText]
    ELSE [err |-> NoErr,
          out |-> Marshal(normalizeRawJSONArray(parseComponentsJSON(JSONAttr(Unmarshal(text))).raws).v)]

\* the canonical text of a trigger_json or components_json value
canonicalize(kind, text) ==
    IF kind = "trigger_json" THEN normalizeRawJSONText(text) ELSE normalizeComponentsText(text)

-----------------------------------------------------------------------------
(* SpecCanon: the canonical text of raw trigger_json and components_json *)

\* a trigger as a configuration may write it, with fields the server also writes
TrigScaffolded ==
    JObj([component |-> S("TRIGGER"), type |-> S("jira.manual.trigger.issue"),
          connectionId |-> JNull, conditions |-> JArr(<<>>)])

\* trigger documents, and component arrays, with and without generated fields
CanonTriggers ==
    {RawTrigger, TrigCreated, TrigManual, TrigScaffolded, S("text"), JNull, Invalid}
CanonComponents ==
    {JNull, JArr(<<>>), JArr(<<RawLog>>), JArr(<<ActLog, ActComment>>),
     JArr(<<CondBlock, RawLog>>), JArr(<<ActComment>>), RawLog, Invalid}

InitCanon ==
    /\ remote = <<>> /\ labelDefs = <<>> /\ tfstate = NoState /\ reqs = <<>>
    /\ diag = [op |-> "none"]
    /\ \E kind \in {"trigger_json", "components_json"} :
         \E j \in (IF kind = "trigger_json" THEN CanonTriggers ELSE CanonComponents) :
           \E rev \in BOOLEAN, ws \in BOOLEAN, rev2 \in BOOLEAN, ws2 \in BOOLEAN :
             codec = [op |-> "canon input", kind |-> kind,
                      text |-> TextOf(j, rev, ws), other |-> TextOf(j, rev2, ws2)]

\* both texts are normalized
Normalize ==
    /\ codec.op = "canon input"
    /\ codec' = [op |-> "normalized", kind |-> codec.kind,
                 text |-> codec.text, other |-> codec.other,
                 out |-> canonicalize(codec.kind, codec.text),
                 outOther |-> canonicalize(codec.kind, codec.other)]
    /\ UNCHANGED <<remote, labelDefs, tfstate, reqs, diag>>

\* the normalized text is normalized once more
NormalizeAgain ==
    /\ codec.op = "normalized" /\ codec.out.err = NoErr
    /\ codec' = [op |-> "renormalized", kind |-> codec.kind,
                 text |-> codec.text, other |-> codec.other,
                 out |-> codec.out, outOther |-> codec.outOther,
                 again |-> canonicalize(codec.kind, codec.out.out)]
    /\ UNCHANGED <<remote, labelDefs, tfstate, reqs, diag>>

\* what the server holds for the rule a raw configuration creates
StoredFor(kind, text) ==
    ServerStore(<<"u1">>,
        CreateRulePayload([Name |-> <<"A">>, ProjectID |-> <<>>,
                           Trigger |-> IF kind = "trigger_json" THEN Unmarshal(text) ELSE RawTrigger,
                           Components |-> IF kind = "trigger_json" THEN <<>>
                                          ELSE parseComponentsJSON(JSONAttr(Unmarshal(text))).raws]))

\* a raw configuration is applied: the rule is created from it and read
\* back; state is the text readIntoModel stores for the attribute
ApplyRaw ==
    /\ codec.op = "canon input"
    /\ Unmarshal(codec.text) # Invalid
    /\ parseComponentsJSON(JSONAttr(Unmarshal(codec.text))).err = NoErr \/ codec.kind = "trigger_json"
    /\ codec' = [op |-> "applied", kind |-> codec.kind, config |-> codec.text,
                 state |-> IF codec.kind = "trigger_json"
                           THEN normalizeRawJSONText(Marshal(StoredFor(codec.kind, codec.text).v["trigger"]))
                           ELSE normalizeComponentsText(Marshal(StoredFor(codec.kind, codec.text).v["components"]))]
    /\ UNCHANGED <<remote, labelDefs, tfstate, reqs, diag>>

NextCanon == Normalize \/ NormalizeAgain \/ ApplyRaw
SpecCanon == InitCanon /\ [][NextCanon]_vars

\* C18: normalizing a normalized trigger or component text returns the same
\* text, and two texts of one document that differ only in the order of
\* object members or in whitespace normalize to the same text
CanonicalizeIsIdempotentAndOrderInsensitive ==
    /\ codec.op = "normalized" =>
         /\ codec.out.err = codec.outOther.err
         /\ codec.out.out = codec.outOther.out
    /\ codec.op = "renormalized" =>
         /\ codec.again.err = NoErr
         /\ codec.again.out = codec.out.out

\* a document with nested generated fields, given in two different texts,
\* has been normalized twice
CanonicalizeIsIdempotentAndOrderInsensitiveWitness ==
    /\ codec.op = "renormalized"
    /\ codec.kind = "components_json"
    /\ codec.text # codec.other
    /\ codec.text # codec.out.out
    /\ Unmarshal(codec.text) = JArr(<<CondBlock, RawLog>>)
    /\ codec.again.out = codec.out.out

\* C19: a raw configuration and the state read back after applying it are
\* semantically equal JSON, whether or not the configuration holds fields
\* the server also writes
RawConfigEqualsStateAfterApply ==
    codec.op = "applied" =>
        /\ codec.state.err = NoErr
        /\ Unmarshal(codec.state.out) = Unmarshal(codec.config)

-----------------------------------------------------------------------------
(* SpecList: Client.ListRules and the jira-automation_rules data source *)

\* the most pages the server holds
MaxPages == 3

\* a RuleSummary and its JSON
Summary(uuid, name, enabled) ==
    [UUID |-> uuid, Name |-> name, State |-> IF enabled THEN <<"ENABLED">> ELSE <<"DISABLED">>,
     Enabled |-> enabled]
SummaryJSON(s) ==
    JObj([k \in {"uuid", "name", "state", "enabled"} |->
          CASE k = "uuid" -> JStr(s.UUID) [] k = "name" -> JStr(s.Name)
            [] k = "state" -> JStr(s.State) [] OTHER -> JBool(s.Enabled)])
SumA == Summary(<<"u1">>, <<"A">>, TRUE)
SumB == Summary(<<"u2">>, <<"B">>, FALSE)
PageData == {<<>>, <<SumA>>, <<SumB, SumA>>}

\* the opaque cursor that follows page i, in three alphabets
PageDigits == <<"1", "2", "3">>
CursorStyles == {"plain", "plus", "amp"}
CursorFor(i, style) ==
    CASE style = "plain" -> <<"page", PageDigits[i]>>
      [] style = "plus" -> <<"page", "+", PageDigits[i]>>
      [] OTHER -> <<"page", "&", PageDigits[i]>>

\* the cursor member of a page: absent, null or a string
NoCursor == [has |-> FALSE, v |-> JNull]
LastCursors == {NoCursor, [has |-> TRUE, v |-> JNull], [has |-> TRUE, v |-> JStr(<<>>)]}

\* finite chains of pages: every page but the last names its successor
PageChains ==
    UNION {{[i \in 1..n |-> [data |-> data[i],
                             cursor |-> IF i = n THEN last
                                        ELSE [has |-> TRUE, v |-> JStr(CursorFor(i, style))]]] :
               data \in [1..n -> PageData], style \in CursorStyles, last \in LastCursors} :
           n \in 1..MaxPages}

\* the body of GET /rule/summary for one page
PageBody(page) ==
    JObj([k \in {"data"} \cup (IF page.cursor.has THEN {"cursor"} ELSE {}) |->
          IF k = "data" THEN JArr([i \in 1..Len(page.data) |-> SummaryJSON(page.data[i])])
          ELSE page.cursor.v])

RECURSIVE QueryValue(_)
\* the value of the cursor parameter as the server reads it from the
\* request URL "...?cursor=" + s: a fragment is not sent, "&" ends the
\* parameter and "+" is a space
QueryValue(s) ==
    IF s = <<>> THEN <<>>
    ELSE IF Head(s) \in {"&", "#"} THEN <<>>
    ELSE <<IF Head(s) = "+" THEN " " ELSE Head(s)>> \o QueryValue(Tail(s))

NoQuery == [has |-> FALSE, v |-> <<>>]

\* the server's answer to GET /rule/summary: the first page, the page
\* after the one that issued the cursor, 400 for a cursor it did not issue
SummaryServer(pages, query) ==
    IF ~query.has THEN [status |-> 200, body |-> PageBody(pages[1])]
    ELSE IF \E i \in 1..(Len(pages) - 1) : pages[i].cursor.v = JStr(QueryValue(query.v))
    THEN [status |-> 200,
          body |-> PageBody(pages[(CHOOSE i \in 1..(Len(pages) - 1) :
                                      pages[i].cursor.v = JStr(QueryValue(query.v))) + 1])]
    ELSE [status |-> 400, body |-> NoBody]

ListFails == {NoFail} \cup [at : 1..MaxPages, kind : {"status", "transport", "badbody"}]

\* Client.do for the n-th request of ListRules
DoSummary(pages, fail, n, query) ==
    IF fail.at # n
    THEN [neterr |-> FALSE, status |-> SummaryServer(pages, query).status,
          body |-> SummaryServer(pages, query).body]
    ELSE CASE fail.kind = "transport" -> [neterr |-> TRUE, status |-> 0, body |-> NoBody]
           [] fail.kind = "badbody" ->
                [neterr |-> FALSE, status |-> SummaryServer(pages, query).status, body |-> Invalid]
           [] OTHER -> [neterr |-> FALSE, status |-> 500, body |-> NoBody]

\* ListRulesResponse.Data and .Cursor of a decoded page
DataOf(body) ==
    IF Has(body, "data") /\ IsArr(body.v["data"])
    THEN [i \in 1..Len(body.v["data"].v) |->
             [UUID |-> StringOf(body.v["data"].v[i].v, "uuid"),
              Name |-> StringOf(body.v["data"].v[i].v, "name"),
              State |-> StringOf(body.v["data"].v[i].v, "state"),
              Enabled |-> body.v["data"].v[i].v["enabled"] = JBool(TRUE)]]
    ELSE <<>>
CursorOf(body) == IF IsObj(body) THEN StringOf(body.v, "cursor") ELSE <<>>

RECURSIVE ListRulesFrom(_, _, _, _, _)
\* the loop of ListRules from the request with this query on: all is the
\* summaries appended so far, sent the queries of the requests sent so far
ListRulesFrom(pages, fail, query, all, sent) ==
    CHOOSE out \in {
       IF d.neterr THEN [err |-> "listing rules", all |-> <<>>, sent |-> Append(sent, query)]
       ELSE IF d.status # 200
       THEN [err |-> "list rules returned", all |-> <<>>, sent |-> Append(sent, query)]
       ELSE IF ~Decodes(d.body) \/ d.body.t \notin {"obj", "null"}
       THEN [err |-> "decoding list rules response", all |-> <<>>, sent |-> Append(sent, query)]
       ELSE IF CursorOf(d.body) = <<>>
       THEN [err |-> NoErr, all |-> all \o DataOf(d.body), sent |-> Append(sent, query)]
       ELSE ListRulesFrom(pages, fail, [has |-> TRUE, v |-> CursorOf(d.body)],
                          all \o DataOf(d.body), Append(sent, query)) :
                      d \in {DoSummary(pages, fail, Len(sent) + 1, query)}} : TRUE

\* client.go ListRules
ListRules(pages, fail) == ListRulesFrom(pages, fail, NoQuery, <<>>, <<>>)

InitList ==
    /\ remote = <<>> /\ labelDefs = <<>> /\ tfstate = NoState /\ reqs = <<>>
    /\ diag = [op |-> "none"]
    /\ \E pages \in PageChains, fail \in ListFails :
         codec = [op |-> "list input", pages |-> pages, fail |-> fail]

\* rulesDataSource.Read
ReadRules ==
    /\ codec.op = "list input"
    /\ \E l \in {ListRules(codec.pages, codec.fail)} :
         codec' = [op |-> "listed", pages |-> codec.pages, fail |-> codec.fail,
                   err |-> l.err, all |-> l.all, sent |-> l.sent,
                   state |-> IF l.err # NoErr THEN [set |-> FALSE, Rules |-> <<>>]
                             ELSE [set |-> TRUE, Rules |-> l.all],
                   errors |-> IF l.err # NoErr THEN <<"Unable to list rules">> ELSE <<>>]
    /\ UNCHANGED <<remote, labelDefs, tfstate, reqs, diag>>

NextList == ReadRules
SpecList == InitList /\ [][NextList]_vars

RECURSIVE AllSummaries(_, _)
\* the summaries of the pages from page i on, in page order
AllSummaries(pages, i) ==
    IF i > Len(pages) THEN <<>> ELSE pages[i].data \o AllSummaries(pages, i + 1)

\* the request that fails, if one of the requests of the chain does
FailHits(pages, fail) == fail.at \in 1..Len(pages)

\* C20: ListRules returns the summaries of all pages in page order, sends
\* one request per page, each after the first with the cursor the page
\* before returned, and stops at the page without a cursor; when a request
\* fails or is answered with a status other than 200 it returns an error
\* and no list
ListRulesReturnsAllPages ==
    codec.op = "listed" =>
      /\ Len(codec.sent) <= Len(codec.pages)
      /\ ~FailHits(codec.pages, codec.fail) =>
           /\ codec.err = NoErr
           /\ codec.all = AllSummaries(codec.pages, 1)
           /\ Len(codec.sent) = Len(codec.pages)
           /\ \A i \in 2..Len(codec.sent) :
                JStr(QueryValue(codec.sent[i].v)) = codec.pages[i - 1].cursor.v
      /\ FailHits(codec.pages, codec.fail) => codec.err # NoErr
      /\ codec.err # NoErr => codec.all = <<>> /\ ~codec.state.set

-----------------------------------------------------------------------------
(* the request sequence of Client.UpdateRule *)

\* the GET of UpdateRule did not give a rule: the request failed on the way,
\* was answered with an undecodable body, or the server has no such rule
UpdateGetFailed == diag.fail.at = 1 \/ diag.uuid \notin DOMAIN diag.before

\* C21: UpdateRule sends one GET for the identifier, then at most one PUT
\* for the same identifier, and nothing else; when the GET fails, or is
\* answered with a status other than 200 or a body that does not decode, or
\* the desired trigger or a desired component is not JSON, no PUT is sent,
\* an error is returned and the server's rules are as before
UpdateRuleIsGetThenAtMostOnePut ==
    diag.op = "UpdateRule" =>
        /\ Len(reqs) \in {1, 2}
        /\ reqs[1].m = "GET" /\ reqs[1].kind = "rule" /\ reqs[1].path = <<diag.uuid>>
        /\ Len(reqs) = 2 =>
             reqs[2].m = "PUT" /\ reqs[2].kind = "rule" /\ reqs[2].path = <<diag.uuid>>
        /\ (UpdateGetFailed \/ ~UpdateInputsValid) =>
             /\ Len(reqs) = 1
             /\ diag.err # NoErr
             /\ remote = diag.before

\* the GET answered with the rule and the desired trigger is not JSON:
\* the call ended after its one request, with an error
UpdateRuleIsGetThenAtMostOnePutWitness ==
    /\ diag.op = "UpdateRule"
    /\ ~UpdateGetFailed
    /\ diag.update.Trigger = Invalid
    /\ Len(reqs) = 1
    /\ diag.err = "parsing trigger"

-----------------------------------------------------------------------------
(* failures in the middle of Create and Update *)

\* the place of the state toggle among the requests of Create and Update
TogglePosition(op) == IF op = "Create" THEN 2 ELSE 3

\* C22: when the state toggle of a Create or an Update fails after the
\* rule write was answered with success, the operation reports an error,
\* leaves the resource state as it was (none after Create) and sends no
\* request after the toggle: the toggle is sent once, the write is not
\* undone, the rule is not read back and no label is synchronised
ToggleFailureEndsOperation ==
    [][(/\ diag'.op \in {"Create", "Update"}
        /\ Len(reqs') >= TogglePosition(diag'.op)
        /\ reqs'[TogglePosition(diag'.op)].kind = "state"
        /\ diag'.resps[TogglePosition(diag'.op)] \notin {200, 204})
       => /\ diag'.resps[TogglePosition(diag'.op) - 1] \in {200, 201, 204}
          /\ Len(reqs') = TogglePosition(diag'.op)
          /\ \A i \in 1..(Len(reqs') - 1) : reqs'[i].kind # "state"
          /\ diag'.errors # <<>>
          /\ tfstate' = tfstate
          /\ diag'.op = "Create" => ~tfstate'.present
          /\ diag'.uuid \in DOMAIN remote']_vars

\* an Update whose PUT was accepted and whose toggle was answered with 500
ToggleFailureEndsOperationWitness ==
    /\ diag.op = "Update" /\ Len(reqs) = 3
    /\ reqs[2].m = "PUT" /\ reqs[2].kind = "rule" /\ diag.resps[2] = 200
    /\ reqs[3].kind = "state" /\ diag.resps[3] = 500
    /\ diag.errors = <<"Error setting rule state">>
    /\ tfstate.present

\* the kinds of the component catalog
CatalogKinds == {<<"log">>, <<"comment">>, <<"add_release_related_work">>, <<"condition">>}

\* a plan whose structured trigger or components cannot be built: a kind
\* outside the catalog or a required argument that is missing or empty
FaultyPlan(plan) ==
    \/ /\ plan.Trigger.set
       /\ \/ plan.Trigger.Type # <<"status_transition">>
          \/ \E k \in {"from_status", "to_status"} : ArgOf(plan.Trigger.Args, k) = <<>>
    \/ /\ plan.Components.set
       /\ \E i \in 1..Len(plan.Components.list) :
            \/ plan.Components.list[i].Type \notin CatalogKinds
            \/ /\ plan.Components.list[i].Type # <<"condition">>
               /\ \E k \in RequiredArgs(plan.Components.list[i].Type) :
                     ArgOf(plan.Components.list[i].Args, k) = <<>>

BuildErrors == {"Error building trigger JSON", "Error building components JSON"}

\* C23: a trigger or component that cannot be built (required argument
\* missing, webhook credentials missing, kind not in the catalog) makes
\* resolveTriggerJSON or resolveComponentsJSON fail, and a Create or Update
\* that reports such a failure has sent no request and has changed neither
\* the server's rules nor the resource state
BuildFailureSendsNoRequest ==
    /\ [](/\ \A plan \in Plans :
               FaultyPlan(plan) =>
                  \/ resolveTriggerJSON(plan).err \in BuildErrors
                  \/ resolveComponentsJSON(plan).err \in BuildErrors
          /\ BuildComponentsJSON(<<Action(<<"add_release_related_work">>,
                                          ReleaseArgs(<<"rel">>, <<"Deploy X">>))>>,
                                 CloudID, <<>>, WebhookToken,
                                 ProviderAliases, SortedAliases).err # NoErr)
    /\ [][(/\ diag'.op \in {"Create", "Update"}
           /\ diag'.errors # <<>>
           /\ diag'.errors[1] \in BuildErrors)
          => /\ reqs' = <<>>
             /\ remote' = remote /\ labelDefs' = labelDefs
             /\ tfstate' = tfstate]_vars

\* an Update of a rule that is in the state ended on a build error
BuildFailureSendsNoRequestWitness ==
    /\ diag.op = "Update" /\ diag.errors = <<"Error building components JSON">>
    /\ reqs = <<>> /\ tfstate.present /\ tfstate.ID \in DOMAIN remote
    /\ \E plan \in Plans : FaultyPlan(plan) /\ resolveTriggerJSON(plan).err = NoErr

-----------------------------------------------------------------------------
(* SpecScan: the scan of ParseComponents and parseInnerActions over API entries *)

\* the longest list of entries scanned
MaxScan == 3

\* API entries: a debug log, a log, a comment and the release webhook
ScanDebugLog == ActionJSON(1, <<"codebarrel.action.log">>, JStr(debugLogPrefix \o <<"Rule triggered">>))
ScanLog == buildLog(Args1("message", <<"hi">>)).raw
ScanComment == buildComment(Args1("message", <<"hi">>)).raw
ScanRelease ==
    buildAddReleaseRelatedWork(ReleaseArgs(<<"customfield_10020">>, <<"Deploy X">>),
                               CloudID, WebhookUser, WebhookToken).raw
ScanActions == {ScanDebugLog, ScanLog, ScanComment, ScanRelease}

\* containers whose then and else lists hold debug logs in every position
ScanContainers ==
    { BuildConditionJSON(CompareArgs, <<ScanDebugLog, ScanDebugLog, ScanRelease, ScanRelease>>,
                         <<ScanDebugLog, ScanComment, ScanRelease>>).raw,
      BuildConditionJSON(CompareArgs, <<ScanRelease>>, <<ScanLog, ScanDebugLog>>).raw }

InitScan ==
    /\ remote = <<>> /\ labelDefs = <<>> /\ tfstate = NoState /\ reqs = <<>>
    /\ diag = [op |-> "none"]
    /\ \E raws \in SeqsUpTo(ScanActions \cup ScanContainers, MaxScan) :
         codec = [op |-> "scan input", raws |-> raws]

\* ParseComponents on the entries
ScanTop ==
    /\ codec.op = "scan input"
    /\ codec' = [op |-> "scanned", raws |-> codec.raws,
                 parsed |-> ParseComponents(codec.raws, ProviderReverse, SortedReverse)]
    /\ UNCHANGED <<remote, labelDefs, tfstate, reqs, diag>>

\* parseInnerActions on the entries, as the children of an IF or ELSE block
ScanInner ==
    /\ codec.op = "scan input"
    /\ \A i \in 1..Len(codec.raws) : codec.raws[i] \in ScanActions
    /\ codec' = [op |-> "scanned inner", raws |-> codec.raws,
                 parsed |-> parseInnerActions(codec.raws, ProviderReverse, SortedReverse)]
    /\ UNCHANGED <<remote, labelDefs, tfstate, reqs, diag>>

NextScan == ScanTop \/ ScanInner
SpecScan == InitScan /\ [][NextScan]_vars

RECURSIVE KeptFrom(_, _)
\* the positions of the entries that are no debug log, from position i on
KeptFrom(raws, i) ==
    IF i > Len(raws) THEN <<>>
    ELSE IF IsDebugLog(raws[i]) THEN KeptFrom(raws, i + 1)
    ELSE <<i>> \o KeptFrom(raws, i + 1)

\* the kind an API entry stands for
ScanKind(raw) ==
    CASE StringField(raw, "type") = <<"codebarrel.action.log">> -> <<"log">>
      [] StringField(raw, "type") = <<"jira.issue.comment">> -> <<"comment">>
      [] StringField(raw, "type") = <<"jira.issue.outgoing.webhook">> -> <<"add_release_related_work">>
      [] OTHER -> <<"condition">>

\* out is the scan of raws: one component per entry that is no debug log,
\* in order; a component has debug exactly when it is a release action and
\* the entry right before its own is a debug log, and then debug is "true"
ScanMatches(raws, out) ==
    /\ Len(out) = Len(KeptFrom(raws, 1))
    /\ \A k \in 1..Len(out) :
         /\ out[k].Type = ScanKind(raws[KeptFrom(raws, 1)[k]])
         /\ ~(out[k].Type = <<"log">> /\ HasPrefix(ArgOf(out[k].Args, "message"), debugLogPrefix))
         /\ ("debug" \in DOMAIN out[k].Args) <=>
              /\ out[k].Type = <<"add_release_related_work">>
              /\ KeptFrom(raws, 1)[k] > 1
              /\ IsDebugLog(raws[KeptFrom(raws, 1)[k] - 1])
         /\ "debug" \in DOMAIN out[k].Args => out[k].Args["debug"] = <<"true">>

\* C24: in the scans of ParseComponents and parseInnerActions a release
\* action gets debug = "true" exactly when the entry right before it is a
\* debug log (one or more debug logs and nothing else in between); any
\* other entry, a parsed action or a container, clears the flag; the flag
\* of a then or else list is its own; debug logs are not in the output
DebugFlagNeedsAdjacentLog ==
    /\ codec.op = "scanned" =>
         /\ codec.parsed.err = NoErr
         /\ ScanMatches(codec.raws, codec.parsed.components)
         /\ \A k \in 1..Len(codec.parsed.components) :
              codec.parsed.components[k].Type = <<"condition">> =>
                /\ ScanMatches(BlockEntries(codec.raws[KeptFrom(codec.raws, 1)[k]], 1),
                               codec.parsed.components[k].Then)
                /\ ScanMatches(BlockEntries(codec.raws[KeptFrom(codec.raws, 1)[k]], 2),
                               codec.parsed.components[k].Else)
    /\ codec.op = "scanned inner" =>
         /\ codec.parsed.err = NoErr
         /\ ScanMatches(codec.raws, codec.parsed.actions)

\* debug log, container, release action: the container cleared the flag,
\* and inside the container the second of two release actions has no debug
DebugFlagNeedsAdjacentLogWitness ==
    /\ codec.op = "scanned" /\ Len(codec.raws) = 3
    /\ codec.raws[1] = ScanDebugLog /\ codec.raws[2] \in ScanContainers /\ codec.raws[3] = ScanRelease
    /\ Len(codec.parsed.components) = 2
    /\ Len(codec.parsed.components[1].Then) = 2
    /\ "debug" \in DOMAIN codec.parsed.components[1].Then[1].Args
    /\ "debug" \notin DOMAIN codec.parsed.components[1].Then[2].Args
    /\ "debug" \notin DOMAIN codec.parsed.components[2].Args

\* ---- claims on the order in which aliases are applied ----

\* C25: with two aliases of which one is a prefix of the other, a smart
\* value that names the longer alias resolves to the field id of the longer
\* alias, followed by what followed the alias, and the shorter alias does
\* not rewrite it
LongerAliasIsResolvedFirst ==
    codec.op = "resolved" =>
      \A short \in DOMAIN codec.aliases, long \in DOMAIN codec.aliases :
        (short # long /\ HasPrefix(long, short)) =>
          \A k \in DOMAIN codec.args :
            HasPrefix(codec.args[k], <<"{{issue.">> \o long) =>
              codec.heap[codec.last][k] =
                 <<"{{issue.">> \o codec.aliases[long]
                    \o SubSeq(codec.args[k], Len(long) + 2, Len(codec.args[k]))

\* C29: for a fixed argument map and a fixed table the result of
\* resolveAliases and of unresolveAliases is the same for every order
\* sortedKeys may return
AliasResultIsIndependentOfKeyOrder ==
    /\ codec.op = "resolved" =>
         \A o \in sortedKeys(codec.aliases) :
            resolveAliases(codec.args, codec.aliases, o) = codec.heap[codec.last]
    /\ (codec.op = "unresolved" /\ DOMAIN codec.reverse # {}) =>
         \A o \in sortedKeys(codec.reverse) :
            unresolveAliases(codec.heap[codec.last - 1], codec.reverse, o) = codec.heap[codec.last]

\* ---- claims on the representations held in the state ----

\* a plan whose structured components are one log action with the debug
\* prefix, beside the plans of Spec
DebugOnlyConfig ==
    PlanOf(ProjectID, NoTrigger, JSONAttr(RawTrigger),
           ComponentList(<<Action(<<"log">>, Args1("message", debugLogPrefix \o <<"hi">>))>>), NoJSON)
FormPlans == Plans \cup { [DebugOnlyConfig EXCEPT !.Name = <<"A">>, !.Enabled = e] : e \in BOOLEAN }
FormFails == {NoFail} \cup [at : 1..2, kind : {"status"}]
CreatePlanned == CreateWith(FormPlans, FormFails)
UpdatePlanned == UpdateWith(FormPlans, FormFails)
NextForms == CreatePlanned \/ Read \/ UpdatePlanned \/ ImportState
SpecForms == Init /\ [][NextForms]_vars

\* the components array and the trigger a Create (request 1, the POST) or an
\* Update (request 2, the PUT) wrote
WrittenRule(op, rs) == rs[IF op = "Create" THEN 1 ELSE 2].body.v["rule"].v
\* the forms of the plans that resolve to what the operation wrote
PlansWriting(op, rs) ==
    {plan \in FormPlans :
       /\ resolveTriggerJSON(plan).err = NoErr
       /\ resolveComponentsJSON(plan).err = NoErr
       /\ resolveTriggerJSON(plan).raw = WrittenRule(op, rs)["trigger"]
       /\ JArr(resolveComponentsJSON(plan).raws) = WrittenRule(op, rs)["components"]}

\* C26: after a successful Create, Read, Update or ImportState the state
\* holds exactly one of trigger and trigger_json and exactly one of
\* components and components_json: the structured form when the prior model
\* (the plan of a Create or an Update, the prior state of a Read) used it and
\* the raw form otherwise; an import yields trigger_json and components_json
StateHoldsOneRepresentation ==
    [][(/\ diag'.op \in {"Create", "Read", "Update", "ImportState"}
        /\ diag'.errors = <<>>
        /\ tfstate'.present)
       => /\ tfstate'.Trigger.set # tfstate'.TriggerJSON.set
          /\ tfstate'.Components.set # tfstate'.ComponentsJSON.set
          /\ diag'.op = "Read" =>
               /\ tfstate'.Trigger.set = tfstate.Trigger.set
               /\ tfstate'.Components.set = tfstate.Components.set
          /\ diag'.op \in {"Create", "Update"} =>
               \A plan \in PlansWriting(diag'.op, reqs') :
                  /\ tfstate'.Trigger.set = plan.Trigger.set
                  /\ tfstate'.Components.set = plan.Components.set
          /\ diag'.op = "ImportState" =>
               /\ tfstate'.TriggerJSON.set /\ tfstate'.ComponentsJSON.set]_vars

\* ---- claims on Create ----

\* C27: whenever Create reports an error, every rule on the remote system
\* is the rule of the resource state: the POST left no rule behind that the
\* state does not record
FailedCreateLeavesNoOrphan ==
    (diag.op = "Create" /\ diag.errors # <<>>) =>
        \A u \in DOMAIN remote : tfstate.present /\ tfstate.ID = u

\* Create against a server whose answer to the POST decodes as JSON and is
\* one of AnswerKinds, beside the failures of Spec
CreateFails == Fails \cup [at : {1}, kind : AnswerKinds]
CreateAnswered == CreateWith(Plans, CreateFails)
NextCreate == CreateAnswered \/ Read \/ Delete
SpecCreate == Init /\ [][NextCreate]_vars

\* the POST of a Create was answered with success and its body decoded
PostAnswered ==
    /\ diag.op = "Create" /\ Len(reqs) >= 1 /\ reqs[1].m = "POST"
    /\ diag.resps[1] \in {200, 201}
    /\ diag.errors # <<"Error creating rule">>

\* C28: whenever CreateRule returns without error the identifier is not
\* empty, so the state toggle and the read-back that follow in Create
\* address the path of a rule, never /rule//state
CreatedIdentifierIsNeverEmpty ==
    PostAnswered =>
        /\ diag.uuid # <<>>
        /\ \A i \in 2..Len(reqs) :
              reqs[i].kind \in {"rule", "state"} => reqs[i].path[1] # <<>>

-----------------------------------------------------------------------------
(* cmd/import-gen: the bulk mode of the import generator.  Names are
   sequences of one-character strings. *)

MaxImport == 3

DigitChars == <<"0", "1", "2", "3", "4", "5", "6", "7", "8", "9">>
IsDigit(ch) == \E i \in 1..Len(DigitChars) : DigitChars[i] = ch
LowerLetters == {"a", "d", "e", "f", "m", "n", "o", "r", "u"}
\* strings.ToLower on one character
ToLowerChar(ch) == CASE ch = "F" -> "f" [] ch = "O" -> "o" [] ch = "R" -> "r" [] OTHER -> ch
ToLower(s) == [i \in 1..Len(s) |-> ToLowerChar(s[i])]
\* the class [^a-z0-9] of nonAlnum
NonAlnum(ch) == ch \notin LowerLetters /\ ~IsDigit(ch)

\* nonAlnum.ReplaceAllString(s, "_"): every maximal run becomes one "_"
RECURSIVE ReplaceNonAlnum(_)
ReplaceNonAlnum(s) ==
    IF s = <<>> THEN <<>>
    ELSE IF ~NonAlnum(Head(s)) THEN <<Head(s)>> \o ReplaceNonAlnum(Tail(s))
    ELSE IF Len(s) >= 2 /\ NonAlnum(s[2]) THEN ReplaceNonAlnum(Tail(s))
    ELSE <<"_">> \o ReplaceNonAlnum(Tail(s))

\* strings.Trim(s, "_")
RECURSIVE TrimLeft(_)
TrimLeft(s) == IF s # <<>> /\ Head(s) = "_" THEN TrimLeft(Tail(s)) ELSE s
RECURSIVE TrimRight(_)
TrimRight(s) == IF s # <<>> /\ s[Len(s)] = "_" THEN TrimRight(SubSeq(s, 1, Len(s) - 1)) ELSE s
Trim(s) == TrimRight(TrimLeft(s))

Unnamed == <<"u", "n", "n", "a", "m", "e", "d">>

\* main.go sanitize
sanitize(name) ==
    CHOOSE out \in {
        IF IsDigit(s[1]) THEN <<"r", "_">> \o s ELSE s :
          s \in {IF t = <<>> THEN Unnamed ELSE t :
                   t \in {Trim(ReplaceNonAlnum(ToLower(name)))}}} : TRUE

\* the %d of fmt.Sprintf
RECURSIVE Itoa(_)
Itoa(n) == IF n < 10 THEN <<DigitChars[n + 1]>> ELSE Itoa(n \div 10) \o <<DigitChars[(n % 10) + 1]>>

\* fmt.Sprintf("rule_%s.tf", resName)
FileName(resName) == <<"r", "u", "l", "e", "_">> \o resName \o <<".", "t", "f">>

hasLabel(labels, target) == \E i \in 1..Len(labels) : labels[i] = target

\* what the run has produced: the usedNames map, the files of the output
\* directory (name to the block written last) and the blocks in the order
\* they were written
NoOutput == [used |-> <<>>, files |-> <<>>, written |-> <<>>, fatal |-> FALSE]

\* importAllRules, the loop from rule i on; fail names the rule whose GetRule
\* or whose WriteFile fails
RECURSIVE importAllRulesFrom(_, _, _, _, _)
importAllRulesFrom(rules, i, labelFilter, fail, out) ==
    IF i > Len(rules) THEN out
    ELSE IF fail.at = i /\ fail.kind = "get"
    THEN importAllRulesFrom(rules, i + 1, labelFilter, fail, out)
    ELSE IF labelFilter # <<>> /\ ~hasLabel(rules[i].labels, labelFilter)
    THEN importAllRulesFrom(rules, i + 1, labelFilter, fail, out)
    ELSE
      CHOOSE res \in {
         importAllRulesFrom(rules, i + 1, labelFilter, fail,
            IF fail.at = i /\ fail.kind = "write"
            THEN [out EXCEPT !.used = MapPut(out.used, base, n)]
            ELSE [out EXCEPT !.used = MapPut(out.used, base, n),
                             !.files = MapPut(out.files, FileName(resName),
                                              [name |-> resName, uuid |-> rules[i].uuid]),
                             !.written = Append(out.written,
                                                [name |-> resName, uuid |-> rules[i].uuid])]) :
           base \in {sanitize(rules[i].name)},
           n \in {IF sanitize(rules[i].name) \in DOMAIN out.used
                  THEN out.used[sanitize(rules[i].name)] + 1 ELSE 1},
           resName \in {IF sanitize(rules[i].name) \in DOMAIN out.used
                        THEN sanitize(rules[i].name) \o <<"_">>
                               \o Itoa(out.used[sanitize(rules[i].name)] + 1)
                        ELSE sanitize(rules[i].name)}} : TRUE

\* main.go importAllRules: a failing ListRules ends the program
importAllRules(rules, labelFilter, fail) ==
    IF fail.kind = "list" THEN [NoOutput EXCEPT !.fatal = TRUE]
    ELSE importAllRulesFrom(rules, 1, labelFilter, fail, NoOutput)

ImportNames ==
    { <<"f", "o", "o">>, <<"F", "o", "o">>, <<"f", "o", "o", " ", "2">>,
      <<"-", "-">>, <<"2", "f">> }
KeepLabel == <<"keep">>
ImportRuleShapes == [name : ImportNames, labels : {<<>>, <<KeepLabel>>}]
ImportFails ==
    {NoFail} \cup [at : 1..MaxImport, kind : {"get", "write"}] \cup [at : {1}, kind : {"list"}]

\* the remote rules of the run, each with its own identifier
InitImport ==
    /\ remote = <<>> /\ labelDefs = <<>> /\ tfstate = NoState /\ reqs = <<>>
    /\ diag = [op |-> "none"]
    /\ \E shapes \in SeqsUpTo(ImportRuleShapes, MaxImport), labelFilter \in {<<>>, KeepLabel},
          fail \in ImportFails :
         codec = [op |-> "import input",
                  rules |-> [i \in 1..Len(shapes) |->
                               [name |-> shapes[i].name, labels |-> shapes[i].labels,
                                uuid |-> <<"u", Itoa(i)[1]>>]],
                  labelFilter |-> labelFilter, fail |-> fail]

\* one run of the bulk mode
ImportAll ==
    /\ codec.op = "import input"
    /\ codec' = [op |-> "imported", rules |-> codec.rules, labelFilter |-> codec.labelFilter,
                 fail |-> codec.fail,
                 out |-> importAllRules(codec.rules, codec.labelFilter, codec.fail)]
    /\ UNCHANGED <<remote, labelDefs, tfstate, reqs, diag>>

NextImport == ImportAll
SpecImport == InitImport /\ [][NextImport]_vars

\* C30: in the bulk mode distinct remote rules get distinct resource names
\* and distinct files: no two written blocks share a name and every written
\* block is still the content of its file at the end of the run
ImportNamesAreDistinct ==
    codec.op = "imported" =>
        /\ \A i, j \in 1..Len(codec.out.written) :
              i # j => codec.out.written[i].name # codec.out.written[j].name
        /\ \A i \in 1..Len(codec.out.written) :
              codec.out.files[FileName(codec.out.written[i].name)] = codec.out.written[i]

\* sanitize on the sample names gives Terraform identifiers: lower-case
\* letters, digits and "_", not starting with a digit
SanitizeGivesIdentifiers ==
    codec.op = "imported" =>
        \A i \in 1..Len(codec.out.written) :
           /\ ~IsDigit(codec.out.written[i].name[1])
           /\ \A k \in 1..Len(codec.out.written[i].name) :
                 codec.out.written[i].name[k] \in LowerLetters \cup {"_"}
                 \/ IsDigit(codec.out.written[i].name[k])

=============================================================================
